---- MODULE Spec2Model ----
(***************************************************************************)
(* The Klipper scheduler (src/sched.c) running on the simulator board      *)
(* (src/simulator/timer.c): the sorted timer list, the timer dispatch loop *)
(* of the board, the foreground task loop and the shutdown path.           *)
(*                                                                         *)
(* Ticks are uint32_t in the code.  A tick is held here as the int32_t     *)
(* with the same bit pattern, so that every value stays inside the range   *)
(* of the model checker's integers: 0x80000000 is INT32_MIN, and Add32 and *)
(* Sub32 wrap modulo 2^32 exactly as the unsigned arithmetic does.         *)
(***************************************************************************)
EXTENDS Integers, Sequences, FiniteSets, TLC

VARIABLES
    now,              \* the hardware clock that timer_read_time() samples
    last_read_time,   \* timer.c: last value returned by timer_read_time()
    must_wake_timers, \* timer.c: flag tested by timer_callback()
    waketime,         \* struct timer .waketime, per timer
    next,             \* struct timer .next, per timer
    timer_list,       \* SchedStatus.timer_list
    last_insert,      \* SchedStatus.last_insert
    tasks_status,     \* SchedStatus.tasks_status
    tasks_busy,       \* SchedStatus.tasks_busy
    shutdown_status,  \* SchedStatus.shutdown_status
    shutdown_reason,  \* SchedStatus.shutdown_reason
    wake,             \* struct task_wake .wake of the one wakeable task
    irq_on,           \* interrupts enabled (irq_enable/irq_disable/irq_save)
    jmp_set,          \* shutdown_jmp has been filled in by setjmp()
    jmp_val,          \* the value handed to longjmp(), read by the landing pad
    pc,               \* position of the foreground thread (sched_main/run_tasks)
    td,               \* activation of timer_dispatch(): position, repeat_count,
                      \* caller; count: history, timers dispatched by this call
    linked_order,     \* history: user timers in the order of their sched_add_timer
    landings,         \* history: number of times the landing pad was entered
    handler_runs,     \* history: number of runs of ctr_run_shutdownfuncs
    msgs,             \* history: the "shutdown" messages handed to sendf
    snap,             \* history: the list as it was before the latest
                      \* sched_add_timer of a task that records it
    trues,            \* history: sched_check_wake calls that returned 1 since
                      \* the latest sched_wake_task, where they are counted
    idled,            \* history: tasks_status was TS_IDLE at some time since the
                      \* latest call of sched_check_set_tasks_busy (since boot
                      \* before the first call)
    tx_buffer,        \* serial.c: tx_buffer.count, bytes from the main thread
                      \* waiting for the TCP thread
    rx_buffer,        \* serial.c: rx_buffer.count, bytes from the TCP thread
                      \* waiting for the main thread
    tcp_thread_running, \* serial.c: set by the TCP thread once it listens
    main_pc,          \* where the main thread is in serial.c
    tx_pending,       \* bytes that serial_get_tx_byte() still has to hand out
                      \* in this call of serial_enable_tx_irq
    tcp_pc,           \* where the TCP thread is in serial.c
    rx_pending,       \* bytes of buffer[] that handle_client_connection
                      \* still has to put into rx_buffer
    tcp_write,        \* FD_ISSET(sock, &write_fds) of the current iteration
    client,           \* the TCP client, as the sockets show it
    sock_in           \* bytes the client has sent that were not read yet

vars == << now, last_read_time, must_wake_timers, waketime, next, timer_list,
           last_insert, tasks_status, tasks_busy, shutdown_status,
           shutdown_reason, wake, irq_on, jmp_set, jmp_val, pc, td,
           linked_order, landings, handler_runs, msgs, snap, trues, idled,
           tx_buffer, rx_buffer, tcp_thread_running, main_pc, tx_pending,
           tcp_pc, rx_pending, tcp_write, client, sock_in >>

-----------------------------------------------------------------------------
(* Bounds of the model *)

\* the clock is followed for this many ticks after boot
MaxElapsed == 8

\* number of entries into the shutdown landing pad in one behaviour
MaxShutdowns == 2

\* the clock is followed over this many periods of the periodic timer
MaxPeriods == 3

\* bytes a ring buffer of serial.c holds in the model, for BUFFER_SIZE
BufferSize == 2

\* bytes one read() of handle_client_connection returns at most in the model,
\* for sizeof(buffer)
MaxChunk == 2

\* bytes serial_get_tx_byte() hands out at most in one serial_enable_tx_irq
MaxTxBytes == 3

-----------------------------------------------------------------------------
(* 32-bit tick arithmetic *)

INT32_MAX == 1073741824 + 1073741823

INT32_MIN == (0 - INT32_MAX) - 1

\* uint32_t a + b
Add32(a, b) ==
    IF a >= 0 /\ b >= 0 /\ a > INT32_MAX - b
        THEN (a - INT32_MAX - 1) + (b - INT32_MAX - 1)
    ELSE IF a < 0 /\ b < 0 /\ a < INT32_MIN - b
        THEN (a + INT32_MAX + 1) + (b + INT32_MAX + 1)
    ELSE a + b

\* uint32_t a - b
Sub32(a, b) ==
    IF a >= 0 /\ b < 0 /\ a > INT32_MAX + b
        THEN (a - INT32_MAX - 1) - (b + INT32_MAX + 1)
    ELSE IF a < 0 /\ b >= 0 /\ a < INT32_MIN + b
        THEN (a + INT32_MAX + 1) - (b - INT32_MAX - 1)
    ELSE a - b

\* (int32_t)(a - b) < 0
timer_is_before(a, b) == Sub32(a, b) < 0

-----------------------------------------------------------------------------
(* Program constants *)

TS_IDLE == -1

TS_REQUESTED == 0

TS_RUNNING == 1

\* timer_from_us(100000) at one tick per microsecond
PERIOD == 100000

\* the 0x80000000 that periodic_event adds to find the sentinel's waketime
SENTINEL_OFFSET == INT32_MIN

TIMER_IDLE_REPEAT_COUNT == 100

TIMER_REPEAT_COUNT == 20

\* timer_from_us(2) at one tick per microsecond
TIMER_MIN_TRY_TICKS == 2

\* the callback results SF_DONE and SF_RESCHEDULE
RES_DONE == "SF_DONE"

RES_RESCHEDULE == "SF_RESCHEDULE"

NULL == "NULL"

periodic_timer == "periodic_timer"

sentinel_timer == "sentinel_timer"

deleted_timer == "deleted_timer"

\* the timers owned by callers of the scheduler
UserTimers == {"A", "B", "C"}

Timers == {periodic_timer, sentinel_timer, deleted_timer} \cup UserTimers

\* the reason id 0 of the zero-initialised SchedStatus.shutdown_reason
NoReason == "0"

\* shutdown reasons (static string ids)
TimerTooClose == "Timer too close"

SentinelCalled == "sentinel timer called"

RescheduledInPast == "Rescheduled timer in the past"

ClearedNotShutdown == "Shutdown cleared when not shutdown"

\* reasons of the callers' shutdown(reason) call sites
ShutdownReasons == {"r42"}

\* reasons of the callers' try_shutdown(reason) call sites
TryReasons == {"r43"}

-----------------------------------------------------------------------------
(* Inputs *)

\* the clock at boot: timer_init sets start_sec one second ahead, so the first
\* reading lies in the second before tick 0
BootTime == 0 - 4

\* how far the environment advances the clock in one step
TickSteps == {2}

\* the clock may read t: t is not before boot and within the followed span
InSpan(t) == Sub32(t, BootTime) >= 0 /\ Sub32(t, BootTime) <= MaxElapsed

\* waketimes handed to sched_add_timer, relative to the clock
AddOffsets == {0 - 2, 0, 4}

\* what a user callback adds to its waketime before returning SF_RESCHEDULE
RescheduleSteps == {2}

-----------------------------------------------------------------------------
(* The timer list *)

\* the nodes met by following next from n, n first, at most k of them
RECURSIVE Chain(_, _, _)
Chain(nx, n, k) ==
    IF n = NULL \/ k = 0 THEN << >> ELSE << n >> \o Chain(nx, nx[n], k - 1)

\* the list as the dispatcher sees it: the nodes reachable from timer_list
List == Chain(next, timer_list, Cardinality(Timers) + 1)

Range(s) == {s[i] : i \in 1..Len(s)}

Linked == Range(List)

\* position of a linked node in the list
PosOf(n) == CHOOSE i \in 1..Len(List) : List[i] = n

\* s without the element x
RECURSIVE Without(_, _)
Without(s, x) ==
    IF s = << >> THEN << >>
    ELSE IF Head(s) = x THEN Without(Tail(s), x)
    ELSE << Head(s) >> \o Without(Tail(s), x)

\* insert_scan with the comparison turned round: the walk stops as soon as the
\* next node is not before waketime, so equal waketimes are overtaken
RECURSIVE insert_scan_before_equal(_, _, _, _, _)
insert_scan_before_equal(nx, wt, pos, w, fuel) ==
    IF fuel = 0 THEN "LOOP"
    ELSE IF nx[pos] = NULL THEN NULL
    ELSE IF ~timer_is_before(wt[nx[pos]], w) THEN pos
    ELSE insert_scan_before_equal(nx, wt, nx[pos], w, fuel - 1)

\* The loop of insert_timer: starting at pos, step to the next node until
\* waketime is before that node's waketime.  The result is prev, the node
\* after which the timer is linked; NULL when the walk steps off the sentinel
\* (pos->waketime is then read through a NULL pointer); "LOOP" when the walk
\* goes round a cycle without ever stopping.
RECURSIVE insert_scan(_, _, _, _, _)
insert_scan(nx, wt, pos, w, fuel) ==
    IF fuel = 0 THEN "LOOP"
    ELSE IF nx[pos] = NULL THEN NULL
    ELSE IF timer_is_before(w, wt[nx[pos]]) THEN pos
    ELSE insert_scan(nx, wt, nx[pos], w, fuel - 1)

\* insert_timer without its loop: the timer is linked right after pos
insert_timer_at_pos(nx, wt, pos, t, w) ==
    [nx EXCEPT ![t] = nx[pos], ![pos] = t]

\* insert_timer(pos, t, waketime): the next pointers after the splice
insert_timer(nx, wt, pos, t, w) ==
    LET prev == insert_scan(nx, wt, pos, w, Cardinality(Timers) + 1)
    IN  IF prev \in Timers
            THEN [nx EXCEPT ![t] = nx[prev], ![prev] = t]
            ELSE nx

\* whether insert_timer(pos, t, waketime) leaves the list (NULL read or endless walk)
insert_faults(nx, wt, pos, w) ==
    insert_scan(nx, wt, pos, w, Cardinality(Timers) + 1) \notin Timers

\* add_front without the test for deleted_timer: add->next = tl always
add_front_onto_head(nx, wt, tl, add, w) ==
    [next       |-> [nx EXCEPT ![add] = tl, ![deleted_timer] = add],
     waketime   |-> [wt EXCEPT ![deleted_timer] = w],
     timer_list |-> deleted_timer]

\* sched_add_timer, the branch that makes add the first timer: the links,
\* deleted_timer's waketime and the head after the splice
add_front(nx, wt, tl, add, w) ==
    [next       |-> [nx EXCEPT ![add] = IF tl = deleted_timer
                                            THEN nx[deleted_timer] ELSE tl,
                               ![deleted_timer] = add],
     waketime   |-> [wt EXCEPT ![deleted_timer] = w],
     timer_list |-> deleted_timer]

\* del_timer with the search started one node late: a timer that directly
\* follows the first node is not found
del_timer_from_second(nx, wt, tl, li, del) ==
    LET c == Chain(nx, tl, Cardinality(Timers) + 1)
        hit == {i \in 2..Len(c) : nx[c[i]] = del}
        pos == c[CHOOSE i \in hit : \A j \in hit : i <= j]
    IN  [next        |-> IF tl = del THEN [nx EXCEPT ![deleted_timer] = nx[del]]
                         ELSE IF hit # {} THEN [nx EXCEPT ![pos] = nx[del]]
                         ELSE nx,
         waketime    |-> IF tl = del THEN [wt EXCEPT ![deleted_timer] = wt[del]]
                         ELSE wt,
         timer_list  |-> IF tl = del THEN deleted_timer ELSE tl,
         last_insert |-> IF li = del THEN periodic_timer ELSE li]

\* sched_del_timer that moves last_insert to the periodic timer without
\* looking at it
del_timer_reset_insert(nx, wt, tl, li, del) ==
    LET c == Chain(nx, tl, Cardinality(Timers) + 1)
        hit == {i \in 1..Len(c) : nx[c[i]] = del}
        pos == c[CHOOSE i \in hit : \A j \in hit : i <= j]
    IN  [next        |-> IF tl = del THEN [nx EXCEPT ![deleted_timer] = nx[del]]
                         ELSE IF hit # {} THEN [nx EXCEPT ![pos] = nx[del]]
                         ELSE nx,
         waketime    |-> IF tl = del THEN [wt EXCEPT ![deleted_timer] = wt[del]]
                         ELSE wt,
         timer_list  |-> IF tl = del THEN deleted_timer ELSE tl,
         last_insert |-> periodic_timer]

\* sched_del_timer(del): the list and last_insert after the call
del_timer(nx, wt, tl, li, del) ==
    LET c == Chain(nx, tl, Cardinality(Timers) + 1)
        hit == {i \in 1..Len(c) : nx[c[i]] = del}
        pos == c[CHOOSE i \in hit : \A j \in hit : i <= j]
    IN  [next        |-> IF tl = del THEN [nx EXCEPT ![deleted_timer] = nx[del]]
                         ELSE IF hit # {} THEN [nx EXCEPT ![pos] = nx[del]]
                         ELSE nx,
         waketime    |-> IF tl = del THEN [wt EXCEPT ![deleted_timer] = wt[del]]
                         ELSE wt,
         timer_list  |-> IF tl = del THEN deleted_timer ELSE tl,
         last_insert |-> IF li = del THEN periodic_timer ELSE li]

\* sched_timer_reset that makes periodic_timer the head itself, without the
\* deleted_timer placeholder
timer_reset_no_placeholder(nx, wt) ==
    [next        |-> [nx EXCEPT ![periodic_timer] = sentinel_timer],
     waketime    |-> wt,
     timer_list  |-> periodic_timer,
     last_insert |-> periodic_timer]

\* sched_timer_reset: the list with every user timer dropped
timer_reset(nx, wt) ==
    [next        |-> [nx EXCEPT ![deleted_timer] = periodic_timer,
                                ![periodic_timer] = sentinel_timer],
     waketime    |-> [wt EXCEPT ![deleted_timer] = wt[periodic_timer]],
     timer_list  |-> deleted_timer,
     last_insert |-> periodic_timer]

\* periodic_event: the waketimes after the callback
periodic_event(wt) ==
    [wt EXCEPT ![periodic_timer] = Add32(wt[periodic_timer], PERIOD),
               ![sentinel_timer] =
                   Add32(Add32(wt[periodic_timer], PERIOD), SENTINEL_OFFSET)]

\* dispatch_update that returns the waketime of the timer it ran in every
\* branch: next_waketime is not set again when the head changes
dispatch_update_stale_return(nx, wt, tl, li, res) ==
    LET t == tl
        updated_waketime == wt[t]
        tn == nx[t]
    IN  IF tn = NULL
            THEN [next |-> nx, timer_list |-> tl, last_insert |-> li,
                  next_waketime |-> updated_waketime, fault |-> TRUE]
        ELSE IF res = RES_DONE
            THEN [next |-> nx, timer_list |-> tn,
                  last_insert |-> IF li = t THEN tn ELSE li,
                  next_waketime |-> updated_waketime, fault |-> FALSE]
        ELSE IF ~timer_is_before(updated_waketime, wt[tn])
            THEN LET pos == IF timer_is_before(updated_waketime, wt[li])
                                THEN tn ELSE li
                 IN  [next |-> insert_timer(nx, wt, pos, t, updated_waketime),
                      timer_list |-> tn, last_insert |-> t,
                      next_waketime |-> updated_waketime,
                      fault |-> insert_faults(nx, wt, pos, updated_waketime)]
        ELSE [next |-> nx, timer_list |-> tl, last_insert |-> li,
              next_waketime |-> updated_waketime, fault |-> FALSE]

\* dispatch_update without the re-insertion: a rescheduled timer stays first
dispatch_update_in_place(nx, wt, tl, li, res) ==
    IF nx[tl] = NULL
        THEN [next |-> nx, timer_list |-> tl, last_insert |-> li,
              next_waketime |-> wt[tl], fault |-> TRUE]
    ELSE IF res = RES_DONE
        THEN [next |-> nx, timer_list |-> nx[tl],
              last_insert |-> IF li = tl THEN nx[tl] ELSE li,
              next_waketime |-> wt[nx[tl]], fault |-> FALSE]
    ELSE [next |-> nx, timer_list |-> tl, last_insert |-> li,
          next_waketime |-> wt[tl], fault |-> FALSE]

\* sched_timer_dispatch that makes a rescheduled head last_insert also when
\* it stays first
dispatch_update_marks_insert(nx, wt, tl, li, res) ==
    LET t == tl
        updated_waketime == wt[t]
        tn == nx[t]
    IN  IF tn = NULL
            THEN [next |-> nx, timer_list |-> tl, last_insert |-> li,
                  next_waketime |-> updated_waketime, fault |-> TRUE]
        ELSE IF res = RES_DONE
            THEN [next |-> nx, timer_list |-> tn,
                  last_insert |-> IF li = t THEN tn ELSE li,
                  next_waketime |-> wt[tn], fault |-> FALSE]
        ELSE IF ~timer_is_before(updated_waketime, wt[tn])
            THEN LET pos == IF timer_is_before(updated_waketime, wt[li])
                                THEN tn ELSE li
                 IN  [next |-> insert_timer(nx, wt, pos, t, updated_waketime),
                      timer_list |-> tn, last_insert |-> t,
                      next_waketime |-> wt[tn],
                      fault |-> insert_faults(nx, wt, pos, updated_waketime)]
        ELSE [next |-> nx, timer_list |-> tl, last_insert |-> t,
              next_waketime |-> updated_waketime, fault |-> FALSE]

\* sched_timer_dispatch that leaves last_insert alone when the head is done
dispatch_update_keep_insert(nx, wt, tl, li, res) ==
    LET t == tl
        updated_waketime == wt[t]
        tn == nx[t]
    IN  IF tn = NULL
            THEN [next |-> nx, timer_list |-> tl, last_insert |-> li,
                  next_waketime |-> updated_waketime, fault |-> TRUE]
        ELSE IF res = RES_DONE
            THEN [next |-> nx, timer_list |-> tn,
                  last_insert |-> li,
                  next_waketime |-> wt[tn], fault |-> FALSE]
        ELSE IF ~timer_is_before(updated_waketime, wt[tn])
            THEN LET pos == IF timer_is_before(updated_waketime, wt[li])
                                THEN tn ELSE li
                 IN  [next |-> insert_timer(nx, wt, pos, t, updated_waketime),
                      timer_list |-> tn, last_insert |-> t,
                      next_waketime |-> wt[tn],
                      fault |-> insert_faults(nx, wt, pos, updated_waketime)]
        ELSE [next |-> nx, timer_list |-> tl, last_insert |-> li,
              next_waketime |-> updated_waketime, fault |-> FALSE]

\* sched_timer_dispatch after the callback of the head t returned res and left
\* its waketimes in wt: the list, last_insert and the value returned
dispatch_update(nx, wt, tl, li, res) ==
    LET t == tl
        updated_waketime == wt[t]
        tn == nx[t]
    IN  IF tn = NULL
            THEN [next |-> nx, timer_list |-> tl, last_insert |-> li,
                  next_waketime |-> updated_waketime, fault |-> TRUE]
        ELSE IF res = RES_DONE
            THEN [next |-> nx, timer_list |-> tn,
                  last_insert |-> IF li = t THEN tn ELSE li,
                  next_waketime |-> wt[tn], fault |-> FALSE]
        ELSE IF ~timer_is_before(updated_waketime, wt[tn])
            THEN LET pos == IF timer_is_before(updated_waketime, wt[li])
                                THEN tn ELSE li
                 IN  [next |-> insert_timer(nx, wt, pos, t, updated_waketime),
                      timer_list |-> tn, last_insert |-> t,
                      next_waketime |-> wt[tn],
                      fault |-> insert_faults(nx, wt, pos, updated_waketime)]
        ELSE [next |-> nx, timer_list |-> tl, last_insert |-> li,
              next_waketime |-> updated_waketime, fault |-> FALSE]

\* A user timer that is off the list belongs to its caller, and the scheduler
\* reads neither of its fields before sched_add_timer has written both again.
\* The fields f of the timers that are off the list nx, tl are held at v.
off_list(f, nx, tl, v) ==
    LET on == Range(Chain(nx, tl, Cardinality(Timers) + 1))
    IN  [t \in Timers |-> IF t \in UserTimers \ on THEN v ELSE f[t]]

-----------------------------------------------------------------------------
(* State *)

ListVars == << waketime, next, timer_list, last_insert >>

TaskVars == << tasks_status, tasks_busy, wake >>

ShutVars == << shutdown_status, shutdown_reason >>

HistVars == << landings, handler_runs, msgs, snap, trues, idled >>

SerialVars == << tx_buffer, rx_buffer, tcp_thread_running, main_pc,
                 tx_pending, tcp_pc, rx_pending, tcp_write, client, sock_in >>

\* no list is on record
NoSnap ==
    [timer |-> NULL, next |-> [t \in Timers |-> NULL],
     waketime |-> [t \in Timers |-> 0], timer_list |-> NULL,
     last_insert |-> NULL, front |-> FALSE, past |-> FALSE,
     undone |-> FALSE, missing |-> FALSE]

TdOff ==
    [pc |-> "off", repeat_count |-> 0, next |-> 0, ret |-> "none", count |-> 0]

\* entry of timer_dispatch(), called from ret
TdStart(ret) ==
    [pc |-> "run", repeat_count |-> TIMER_REPEAT_COUNT, next |-> 0, ret |-> ret,
     count |-> 0]

\* the static initialisers of sched.c and timer.c, before sched_main runs
Init ==
    /\ now = BootTime
    /\ last_read_time = 0
    /\ must_wake_timers = 0
    /\ waketime = [t \in Timers |->
                      IF t = sentinel_timer THEN SENTINEL_OFFSET ELSE 0]
    /\ next = [t \in Timers |->
                  IF t = periodic_timer THEN sentinel_timer ELSE NULL]
    /\ timer_list = periodic_timer
    /\ last_insert = periodic_timer
    /\ tasks_status = 0
    /\ tasks_busy = 0
    /\ shutdown_status = 0
    /\ shutdown_reason = NoReason
    /\ wake = 0
    /\ irq_on = FALSE
    /\ jmp_set = FALSE
    /\ jmp_val = NoReason
    /\ pc = "initfuncs"
    /\ td = TdOff
    /\ linked_order = << >>
    /\ landings = 0
    /\ trues = 0
    /\ idled = FALSE
    /\ tx_buffer = 0
    /\ rx_buffer = 0
    /\ tcp_thread_running = 0
    /\ main_pc = "boot"
    /\ tx_pending = 0
    /\ tcp_pc = "unborn"
    /\ rx_pending = 0
    /\ tcp_write = FALSE
    /\ client = "absent"
    /\ sock_in = 0
    /\ handler_runs = 0
    /\ msgs = << >>
    /\ snap = NoSnap

-----------------------------------------------------------------------------
(* Shutdown entry *)

\* sched_shutdown(reason): irq_disable, then longjmp(shutdown_jmp, reason).
\* Control leaves whatever was running, timer_dispatch included.  A longjmp
\* through a jmp_buf that setjmp never filled is undefined: shutdown_jmp is a
\* zero-filled static, the jump goes to an address made from zeros and the
\* process dies; run_shutdown is not reached.
sched_shutdown(reason) ==
    /\ landings < MaxShutdowns
    /\ irq_on' = FALSE
    /\ td' = TdOff
    /\ IF jmp_set
           THEN pc' = "landing" /\ jmp_val' = reason
           ELSE pc' = "crashed" /\ jmp_val' = jmp_val
    /\ UNCHANGED jmp_set

-----------------------------------------------------------------------------
(* The clock *)

\* time passes
Tick ==
    /\ pc # "crashed"
    /\ \E d \in TickSteps : InSpan(Add32(now, d)) /\ now' = Add32(now, d)
    /\ UNCHANGED << last_read_time, must_wake_timers, ListVars, TaskVars,
                    ShutVars, irq_on, jmp_set, jmp_val, pc, td, linked_order,
                    HistVars, SerialVars >>

-----------------------------------------------------------------------------
(* timer_dispatch of the simulator board, one loop iteration in two steps *)

\* What the callback of timer t may do: the result it returns, the waketimes
\* it leaves, whether it calls sched_wake_tasks or sched_wake_task(w), and the
\* reason when it shuts the machine down instead of returning.
CallbackOutcomes(t) ==
    IF t = periodic_timer THEN
        {[res |-> RES_RESCHEDULE, waketime |-> periodic_event(waketime),
          wake_tasks |-> TRUE, wake_task |-> FALSE, shutdown |-> NULL]}
    ELSE IF t = deleted_timer THEN
        {[res |-> RES_DONE, waketime |-> waketime,
          wake_tasks |-> FALSE, wake_task |-> FALSE, shutdown |-> NULL]}
    ELSE IF t = sentinel_timer THEN
        {[res |-> RES_DONE, waketime |-> waketime,
          wake_tasks |-> FALSE, wake_task |-> FALSE, shutdown |-> SentinelCalled]}
    ELSE
        {[res |-> RES_DONE, waketime |-> waketime,
          wake_tasks |-> k, wake_task |-> k, shutdown |-> NULL]
             : k \in BOOLEAN}
        \cup
        {[res |-> RES_RESCHEDULE,
          waketime |-> [waketime EXCEPT ![t] = Add32(waketime[t], d)],
          wake_tasks |-> FALSE, wake_task |-> FALSE, shutdown |-> NULL]
             : d \in RescheduleSteps}

\* sched_timer_dispatch: run the callback of the head, then update the list
sched_timer_dispatch(cb) ==
    LET u == dispatch_update(next, cb.waketime, timer_list, last_insert, cb.res)
    IN  /\ waketime' = off_list(cb.waketime, u.next, u.timer_list, 0)
        /\ next' = off_list(u.next, u.next, u.timer_list, NULL)
        /\ timer_list' = u.timer_list
        /\ last_insert' = u.last_insert
        /\ tasks_status' = IF cb.wake_tasks THEN TS_REQUESTED ELSE tasks_status
        /\ wake' = IF cb.wake_task THEN 1 ELSE wake
        /\ linked_order' = Without(linked_order, timer_list)
        /\ IF u.fault
               THEN /\ pc' = "crashed"
                    /\ td' = TdOff
               ELSE /\ pc' = pc
                    /\ td' = [td EXCEPT !.pc = "check",
                                        !.next = u.next_waketime,
                                        !.repeat_count = td.repeat_count - 1,
                                        !.count = td.count + 1]

\* timer_dispatch: next = timer_dispatch_many(); repeat_count--;
TdRun ==
    /\ td.pc = "run"
    /\ \E cb \in CallbackOutcomes(timer_list) :
           IF cb.shutdown # NULL
               THEN /\ sched_shutdown(cb.shutdown)
                    /\ UNCHANGED << ListVars, TaskVars, linked_order >>
               ELSE /\ sched_timer_dispatch(cb)
                    /\ UNCHANGED << irq_on, jmp_set, jmp_val >>
    /\ UNCHANGED << now, last_read_time, must_wake_timers, tasks_busy,
                    ShutVars, HistVars, SerialVars >>

\* return from timer_dispatch() to its caller
TdReturn ==
    /\ td' = TdOff
    /\ irq_on' = IF td.ret = "add" THEN TRUE ELSE irq_on

\* the test of timer_dispatch left out: no timer is too far in the past
rescheduled_in_past_never(diff) == FALSE

\* timer_dispatch's test of the next timer once the repeat budget is used up:
\* diff < (int32_t)(-timer_from_us(100000))
rescheduled_in_past(diff) == diff < 0 - PERIOD

\* sched_check_set_tasks_busy with the test one state too high: a recorded
\* TS_REQUESTED does not count as busy
sched_check_set_tasks_busy_above(busy) == busy > TS_REQUESTED

\* sched_check_set_tasks_busy(), the value returned for SchedStatus.tasks_busy
\* = busy: if (SchedStatus.tasks_busy >= TS_REQUESTED) return 1;
sched_check_set_tasks_busy(busy) == busy >= TS_REQUESTED

\* this iteration of timer_dispatch reaches its call of
\* sched_check_set_tasks_busy(): the repeat budget is used up, the next timer
\* is due or nearly so, and no shutdown was raised for it
BusyCalled ==
    /\ td.pc = "check"
    /\ td.repeat_count = 0
    /\ Sub32(td.next, now) <= TIMER_MIN_TRY_TICKS
    /\ ~(rescheduled_in_past(Sub32(td.next, now)) /\ shutdown_status = 0)

\* timer_dispatch, the rest of the iteration: decide between running the next
\* timer at once, scheduling it, waiting for it, and giving up
TdCheck ==
    /\ td.pc = "check"
    /\ LET nxt == td.next
           diff == Sub32(nxt, now)
       IN  IF ~timer_is_before(last_read_time, nxt) /\ td.repeat_count # 0 THEN
               \* run the next timer without reading the clock
               /\ td' = [td EXCEPT !.pc = "run"]
               /\ UNCHANGED << now, last_read_time, must_wake_timers,
                               tasks_busy, irq_on, jmp_set, jmp_val, pc >>
           ELSE IF diff > TIMER_MIN_TRY_TICKS THEN
               \* schedule the next timer normally
               /\ last_read_time' = now
               /\ must_wake_timers' = 0
               /\ TdReturn
               /\ UNCHANGED << now, tasks_busy, jmp_set, jmp_val, pc >>
           ELSE IF td.repeat_count = 0 /\ rescheduled_in_past(diff)
                   /\ shutdown_status = 0 THEN
               \* try_shutdown("Rescheduled timer in the past")
               /\ last_read_time' = now
               /\ sched_shutdown(RescheduledInPast)
               /\ UNCHANGED << now, must_wake_timers, tasks_busy >>
           ELSE IF td.repeat_count = 0
                   /\ sched_check_set_tasks_busy(tasks_busy) THEN
               \* sched_check_set_tasks_busy() returned 1
               /\ last_read_time' = now
               /\ TdReturn
               /\ UNCHANGED << now, must_wake_timers, tasks_busy,
                               jmp_set, jmp_val, pc >>
           ELSE
               \* wait for the next timer to be ready, then run it
               /\ diff > 0 => InSpan(nxt)
               /\ tasks_busy' = IF td.repeat_count = 0
                                    THEN tasks_status ELSE tasks_busy
               /\ td' = [td EXCEPT !.pc = "run",
                                   !.repeat_count =
                                       IF td.repeat_count = 0
                                           THEN TIMER_IDLE_REPEAT_COUNT
                                           ELSE td.repeat_count]
               /\ now' = IF diff > 0 THEN nxt ELSE now
               /\ last_read_time' = IF diff > 0 THEN nxt ELSE now
               /\ UNCHANGED << must_wake_timers, irq_on, jmp_set, jmp_val, pc >>
    /\ idled' = IF BusyCalled THEN tasks_status = TS_IDLE ELSE idled
    /\ UNCHANGED << ListVars, tasks_status, wake, ShutVars,
                    linked_order, landings, handler_runs, msgs, snap, trues,
                    SerialVars >>

-----------------------------------------------------------------------------
(* sched_main *)

\* ctr_run_initfuncs: timer_init arms must_wake_timers and calls timer_kick,
\* which on this board is a direct call of timer_dispatch
timer_init ==
    /\ pc = "initfuncs"
    /\ td.pc = "off"
    /\ must_wake_timers' = 1
    /\ td' = TdStart("init")
    /\ pc' = "setjmp"
    /\ UNCHANGED << now, last_read_time, ListVars, TaskVars, ShutVars,
                    irq_on, jmp_set, jmp_val, linked_order,
                    HistVars, SerialVars >>

\* timer_init when event_base_new fails: try_shutdown before any setjmp
timer_init_fail ==
    /\ pc = "initfuncs"
    /\ td.pc = "off"
    /\ sched_shutdown("Failed to create libevent base")
    /\ UNCHANGED << now, last_read_time, must_wake_timers, ListVars,
                    TaskVars, ShutVars, linked_order, HistVars, SerialVars >>

\* sched_main after the init functions: setjmp returns 0, interrupts are
\* enabled and run_tasks takes its first clock reading
sched_main_setjmp ==
    /\ pc = "setjmp"
    /\ td.pc = "off"
    /\ jmp_set' = TRUE
    /\ irq_on' = TRUE
    /\ last_read_time' = now
    /\ pc' = "check1"
    /\ UNCHANGED << now, must_wake_timers, ListVars, TaskVars, ShutVars,
                    jmp_val, td, linked_order, HistVars, SerialVars >>

\* run_shutdown up to and including sched_timer_reset, whose timer_kick
\* enters timer_dispatch
run_shutdown_enter ==
    /\ pc = "landing"
    /\ LET r == timer_reset(next, waketime)
       IN  /\ last_read_time' = now
           /\ shutdown_reason' = IF shutdown_status = 0
                                     THEN jmp_val ELSE shutdown_reason
           /\ shutdown_status' = 2
           /\ next' = off_list(r.next, r.next, r.timer_list, NULL)
           /\ waketime' = off_list(r.waketime, r.next, r.timer_list, 0)
           /\ timer_list' = r.timer_list
           /\ last_insert' = r.last_insert
    /\ td' = TdStart("reset")
    /\ pc' = "sd_handlers"
    /\ linked_order' = << >>
    /\ landings' = landings + 1
    /\ snap' = NoSnap
    /\ UNCHANGED << now, must_wake_timers, TaskVars, irq_on, jmp_set,
                    jmp_val, handler_runs, msgs, trues, idled, SerialVars >>

\* run_shutdown after sched_timer_reset: the shutdown handlers, status 1,
\* the "shutdown" message; then sched_main enables interrupts and calls
\* run_tasks, which takes its first clock reading
run_shutdown_finish ==
    /\ pc = "sd_handlers"
    /\ td.pc = "off"
    /\ handler_runs' = handler_runs + 1
    /\ shutdown_status' = 1
    /\ irq_on' = TRUE
    /\ msgs' = Append(msgs, shutdown_reason)
    /\ last_read_time' = now
    /\ pc' = "check1"
    /\ UNCHANGED << now, must_wake_timers, ListVars, TaskVars,
                    shutdown_reason, jmp_set, jmp_val, td, linked_order,
                    landings, snap, trues, idled, SerialVars >>

-----------------------------------------------------------------------------
(* run_tasks *)

\* irq_poll(); first test of tasks_status
run_tasks_check ==
    /\ pc = "check1"
    /\ pc' = IF tasks_status # TS_REQUESTED THEN "disable" ELSE "running"
    /\ UNCHANGED << now, last_read_time, must_wake_timers, ListVars, TaskVars,
                    ShutVars, irq_on, jmp_set, jmp_val, td, linked_order,
                    HistVars, SerialVars >>

\* start -= timer_read_time(); irq_disable();
run_tasks_irq_disable ==
    /\ pc = "disable"
    /\ last_read_time' = now
    /\ irq_on' = FALSE
    /\ pc' = "check2"
    /\ UNCHANGED << now, must_wake_timers, ListVars, TaskVars, ShutVars,
                    jmp_set, jmp_val, td, linked_order, HistVars, SerialVars >>

\* run_tasks without the second test: the loop goes idle on the strength of
\* the first test alone
run_tasks_recheck_blind ==
    /\ pc = "check2"
    /\ tasks_status' = TS_IDLE
    /\ tasks_busy' = TS_IDLE
    /\ idled' = TRUE
    /\ pc' = "irq_wait"
    /\ UNCHANGED << now, last_read_time, must_wake_timers, ListVars, wake,
                    ShutVars, irq_on, jmp_set, jmp_val, td, linked_order,
                    landings, handler_runs, msgs, snap, trues, SerialVars >>

\* second test, with interrupts disabled; go idle when nothing was requested
run_tasks_recheck ==
    /\ pc = "check2"
    /\ IF tasks_status # TS_REQUESTED
           THEN /\ tasks_status' = TS_IDLE
                /\ tasks_busy' = TS_IDLE
                /\ idled' = TRUE
                /\ pc' = "irq_wait"
                /\ UNCHANGED << last_read_time, irq_on >>
           ELSE /\ irq_on' = TRUE
                /\ last_read_time' = now
                /\ pc' = "running"
                /\ UNCHANGED << tasks_status, tasks_busy, idled >>
    /\ UNCHANGED << now, must_wake_timers, ListVars, wake, ShutVars,
                    jmp_set, jmp_val, td, linked_order, landings,
                    handler_runs, msgs, snap, trues, SerialVars >>

\* irq_wait(): one pass of the event loop; timer_callback dispatches timers
\* only while must_wake_timers is set
irq_wait ==
    /\ pc = "irq_wait"
    /\ td.pc = "off"
    /\ td' = IF must_wake_timers # 0 THEN TdStart("irq") ELSE td
    /\ pc' = "wait_test"
    /\ UNCHANGED << now, last_read_time, must_wake_timers, ListVars,
                    TaskVars, ShutVars, irq_on, jmp_set, jmp_val,
                    linked_order, HistVars, SerialVars >>

\* while (tasks_status != TS_REQUESTED); then irq_enable and a clock reading
run_tasks_wait_test ==
    /\ pc = "wait_test"
    /\ td.pc = "off"
    /\ IF tasks_status # TS_REQUESTED
           THEN /\ pc' = "irq_wait"
                /\ UNCHANGED << last_read_time, irq_on >>
           ELSE /\ irq_on' = TRUE
                /\ last_read_time' = now
                /\ pc' = "running"
    /\ UNCHANGED << now, must_wake_timers, ListVars, TaskVars, ShutVars,
                    jmp_set, jmp_val, td, linked_order, HistVars, SerialVars >>

\* tasks_status = TS_RUNNING; ctr_run_taskfuncs starts
run_tasks_running ==
    /\ pc = "running"
    /\ tasks_status' = TS_RUNNING
    /\ pc' = "tasks"
    /\ UNCHANGED << now, last_read_time, must_wake_timers, ListVars,
                    tasks_busy, wake, ShutVars, irq_on, jmp_set, jmp_val, td,
                    linked_order, HistVars, SerialVars >>

\* ctr_run_taskfuncs returns; the clock reading for stats_update
run_tasks_end ==
    /\ pc = "tasks2"
    /\ td.pc = "off"
    /\ last_read_time' = now
    /\ pc' = "check1"
    /\ UNCHANGED << now, must_wake_timers, ListVars, TaskVars, ShutVars,
                    irq_on, jmp_set, jmp_val, td, linked_order,
                    HistVars, SerialVars >>

-----------------------------------------------------------------------------
(* The scheduler's interface, called by the task functions *)

\* a task function is running and no call is in progress
InTask == pc \in {"tasks", "task_work", "tasks2"} /\ td.pc = "off"

\* the test of sched_add_timer left out: no timer is too close
timer_too_close_never(w) == FALSE

\* sched_add_timer's test of a timer that is to become the first:
\* timer_is_before(waketime, timer_read_time())
timer_too_close(w) == timer_is_before(w, now)

\* sched_add_timer(add) with add->waketime == w
sched_add_timer(add, w) ==
    LET tl == timer_list
        wt == [waketime EXCEPT ![add] = w]
        f  == add_front(next, wt, tl, add, w)
    IN  IF timer_is_before(w, wt[tl]) THEN
            /\ last_read_time' = now
            /\ IF timer_too_close(w) /\ shutdown_status = 0 THEN
                   \* try_shutdown("Timer too close")
                   /\ sched_shutdown(TimerTooClose)
                   /\ UNCHANGED << waketime, next, timer_list, linked_order >>
               ELSE
                   /\ waketime' = f.waketime
                   /\ next' = f.next
                   /\ timer_list' = f.timer_list
                   /\ linked_order' = Append(linked_order, add)
                   \* timer_kick(), still inside irq_save
                   /\ irq_on' = FALSE
                   /\ td' = TdStart("add")
                   /\ UNCHANGED << jmp_set, jmp_val, pc >>
        ELSE IF insert_faults(next, wt, tl, w) THEN
            /\ pc' = "crashed"
            /\ UNCHANGED << last_read_time, waketime, next, timer_list,
                            linked_order,
                            irq_on, td, jmp_set, jmp_val >>
        ELSE
            /\ waketime' = wt
            /\ next' = insert_timer(next, wt, tl, add, w)
            /\ linked_order' = Append(linked_order, add)
            /\ UNCHANGED << last_read_time, timer_list, irq_on, td, jmp_set,
                            jmp_val, pc >>

\* a task schedules one of the timers S that is not on the list
TaskAddOf(S) ==
    /\ InTask
    /\ \E add \in S \ Linked : \E off \in AddOffsets :
           sched_add_timer(add, Add32(now, off))
    /\ UNCHANGED << now, must_wake_timers, last_insert, TaskVars,
                    ShutVars, HistVars, SerialVars >>

\* the tasks own every user timer
TaskAdd == TaskAddOf(UserTimers)

\* the tasks own two timers
TaskAddTwo == TaskAddOf({"A", "B"})

\* the tasks own one timer
TaskAddOne == TaskAddOf({"A"})

\* sched_del_timer(del)
sched_del_timer(del) ==
    LET d == del_timer(next, waketime, timer_list, last_insert, del)
    IN  /\ next' = off_list(d.next, d.next, d.timer_list, NULL)
        /\ waketime' = off_list(d.waketime, d.next, d.timer_list, 0)
        /\ timer_list' = d.timer_list
        /\ last_insert' = d.last_insert
        /\ linked_order' = Without(linked_order, del)

\* a task removes one of the timers S, on the list or not
TaskDelOf(S) ==
    /\ InTask
    /\ \E del \in S : sched_del_timer(del)
    /\ UNCHANGED << now, last_read_time, must_wake_timers, TaskVars,
                    ShutVars, irq_on, jmp_set, jmp_val, pc, td,
                    HistVars, SerialVars >>

\* the tasks own every user timer
TaskDel == TaskDelOf(UserTimers)

\* the tasks own two timers
TaskDelTwo == TaskDelOf({"A", "B"})

\* sched_wake_task(w): sched_wake_tasks(), then w->wake = 1
sched_wake_task ==
    /\ tasks_status' = TS_REQUESTED
    /\ wake' = 1

\* a task wakes the task of w
TaskWake ==
    /\ InTask
    /\ sched_wake_task
    /\ UNCHANGED << now, last_read_time, must_wake_timers, ListVars,
                    tasks_busy, ShutVars, irq_on, jmp_set, jmp_val, pc, td,
                    linked_order, HistVars, SerialVars >>

\* sched_check_wake(w), called once in every pass by the task of w, which
\* does its work when the call returns 1 and returns at once otherwise
sched_check_wake ==
    /\ pc = "tasks"
    /\ td.pc = "off"
    /\ wake' = 0
    /\ pc' = IF wake # 0 THEN "task_work" ELSE "tasks2"
    /\ UNCHANGED << now, last_read_time, must_wake_timers, ListVars,
                    tasks_status, tasks_busy, ShutVars, irq_on, jmp_set,
                    jmp_val, td, linked_order, HistVars, SerialVars >>

\* the task of w has done its work and returns
task_work_done ==
    /\ pc = "task_work"
    /\ td.pc = "off"
    /\ pc' = "tasks2"
    /\ UNCHANGED << now, last_read_time, must_wake_timers, ListVars,
                    TaskVars, ShutVars, irq_on, jmp_set, jmp_val, td,
                    linked_order, HistVars, SerialVars >>

\* sched_try_shutdown without the test of shutdown_status
sched_try_shutdown_always(reason) == sched_shutdown(reason)

\* sched_try_shutdown(reason)
sched_try_shutdown(reason) ==
    IF shutdown_status = 0
        THEN sched_shutdown(reason)
        ELSE UNCHANGED << irq_on, jmp_set, jmp_val, pc, td >>

\* a task calls shutdown(reason)
TaskShutdown ==
    /\ InTask
    /\ \E r \in ShutdownReasons : sched_shutdown(r)
    /\ UNCHANGED << now, last_read_time, must_wake_timers, ListVars,
                    TaskVars, ShutVars, linked_order, HistVars, SerialVars >>

\* a task calls try_shutdown(reason)
TaskTryShutdown ==
    /\ InTask
    /\ \E r \in TryReasons : sched_try_shutdown(r)
    /\ UNCHANGED << now, last_read_time, must_wake_timers, ListVars,
                    TaskVars, ShutVars, linked_order, HistVars, SerialVars >>

\* sched_clear_shutdown without the test for a shutdown in progress
sched_clear_shutdown_in_progress ==
    IF shutdown_status = 0 THEN
        /\ sched_shutdown(ClearedNotShutdown)
        /\ UNCHANGED ShutVars
    ELSE
        /\ shutdown_status' = 0
        /\ UNCHANGED << shutdown_reason, irq_on, jmp_set, jmp_val, pc, td >>

\* sched_clear_shutdown()
sched_clear_shutdown ==
    IF shutdown_status = 0 THEN
        /\ sched_shutdown(ClearedNotShutdown)
        /\ UNCHANGED ShutVars
    ELSE IF shutdown_status = 2 THEN
        UNCHANGED << ShutVars, irq_on, jmp_set, jmp_val, pc, td >>
    ELSE
        /\ shutdown_status' = 0
        /\ UNCHANGED << shutdown_reason, irq_on, jmp_set, jmp_val, pc, td >>

\* a task (the command handler) calls sched_clear_shutdown
TaskClearShutdown ==
    /\ InTask
    /\ sched_clear_shutdown
    /\ UNCHANGED << now, last_read_time, must_wake_timers, ListVars,
                    TaskVars, linked_order, HistVars, SerialVars >>

\* a shutdown handler run by ctr_run_shutdownfuncs calls shutdown(reason)
ShutdownFuncShutdown ==
    /\ pc = "sd_handlers"
    /\ td.pc = "off"
    /\ \E r \in ShutdownReasons : sched_shutdown(r)
    /\ UNCHANGED << now, last_read_time, must_wake_timers, ListVars,
                    TaskVars, ShutVars, linked_order, HistVars, SerialVars >>

\* a shutdown handler run by ctr_run_shutdownfuncs calls try_shutdown(reason)
ShutdownFuncTryShutdown ==
    /\ pc = "sd_handlers"
    /\ td.pc = "off"
    /\ \E r \in TryReasons : sched_try_shutdown(r)
    /\ UNCHANGED << now, last_read_time, must_wake_timers, ListVars,
                    TaskVars, ShutVars, linked_order, HistVars, SerialVars >>

-----------------------------------------------------------------------------
(* Interrupt handlers other than the timer *)

\* an interrupt can be taken: interrupts are enabled, or the foreground
\* sleeps in irq_wait; handlers do not nest
IrqOpen == td.pc = "off" /\ (irq_on \/ pc = "irq_wait") /\ pc # "crashed"

\* an interrupt handler calls sched_wake_task(w)
IsrWakeTask ==
    /\ IrqOpen
    /\ sched_wake_task
    /\ UNCHANGED << now, last_read_time, must_wake_timers, ListVars,
                    tasks_busy, ShutVars, irq_on, jmp_set, jmp_val, pc, td,
                    linked_order, HistVars, SerialVars >>

\* an interrupt handler calls try_shutdown(reason)
IsrTryShutdown ==
    /\ IrqOpen
    /\ \E r \in TryReasons : sched_try_shutdown(r)
    /\ UNCHANGED << now, last_read_time, must_wake_timers, ListVars,
                    TaskVars, ShutVars, linked_order, HistVars, SerialVars >>

-----------------------------------------------------------------------------
(* Specifications *)

\* every step of the program and of its callers
Next ==
    \/ Tick
    \/ timer_init
    \/ timer_init_fail
    \/ sched_main_setjmp
    \/ run_shutdown_enter
    \/ run_shutdown_finish
    \/ run_tasks_check
    \/ run_tasks_irq_disable
    \/ run_tasks_recheck
    \/ irq_wait
    \/ run_tasks_wait_test
    \/ run_tasks_running
    \/ run_tasks_end
    \/ TdRun
    \/ TdCheck
    \/ TaskAdd
    \/ TaskDel
    \/ TaskWake
    \/ sched_check_wake
    \/ task_work_done
    \/ TaskShutdown
    \/ TaskTryShutdown
    \/ TaskClearShutdown
    \/ ShutdownFuncShutdown
    \/ ShutdownFuncTryShutdown
    \/ IsrWakeTask
    \/ IsrTryShutdown

FullSpec == Init /\ [][Next]_vars

\* The timer list: the tasks add and delete two timers, the callbacks finish
\* or reschedule, and nothing else calls into the scheduler.
TimerNext ==
    \/ Tick
    \/ timer_init
    \/ timer_init_fail
    \/ sched_main_setjmp
    \/ run_shutdown_enter
    \/ run_shutdown_finish
    \/ run_tasks_check
    \/ run_tasks_irq_disable
    \/ run_tasks_recheck
    \/ irq_wait
    \/ run_tasks_wait_test
    \/ run_tasks_running
    \/ run_tasks_end
    \/ TdRun
    \/ TdCheck
    \/ TaskAddTwo
    \/ TaskDelTwo
    \/ sched_check_wake
    \/ task_work_done

Spec == Init /\ [][TimerNext]_vars

\* the same with three timers in the hands of the tasks
ThreeTimerNext ==
    \/ Tick
    \/ timer_init
    \/ timer_init_fail
    \/ sched_main_setjmp
    \/ run_shutdown_enter
    \/ run_shutdown_finish
    \/ run_tasks_check
    \/ run_tasks_irq_disable
    \/ run_tasks_recheck
    \/ irq_wait
    \/ run_tasks_wait_test
    \/ run_tasks_running
    \/ run_tasks_end
    \/ TdRun
    \/ TdCheck
    \/ TaskAdd
    \/ TaskDel
    \/ sched_check_wake
    \/ task_work_done

ThreeTimerSpec == Init /\ [][ThreeTimerNext]_vars

\* Shutdown: tasks, interrupt handlers and shutdown handlers shut the machine
\* down and clear the shutdown; the tasks add one timer.
ShutdownNext ==
    \/ timer_init
    \/ timer_init_fail
    \/ sched_main_setjmp
    \/ run_shutdown_enter
    \/ run_shutdown_finish
    \/ run_tasks_check
    \/ run_tasks_irq_disable
    \/ run_tasks_recheck
    \/ irq_wait
    \/ run_tasks_wait_test
    \/ run_tasks_running
    \/ run_tasks_end
    \/ TdRun
    \/ TdCheck
    \/ TaskAddOne
    \/ sched_check_wake
    \/ task_work_done
    \/ TaskShutdown
    \/ TaskTryShutdown
    \/ TaskClearShutdown
    \/ ShutdownFuncShutdown
    \/ ShutdownFuncTryShutdown
    \/ IsrWakeTask
    \/ IsrTryShutdown

ShutdownSpec == Init /\ [][ShutdownNext]_vars

\* the steps of the processor: the foreground loop and the timer dispatcher
Foreground ==
    \/ timer_init
    \/ sched_main_setjmp
    \/ run_tasks_check
    \/ run_tasks_irq_disable
    \/ run_tasks_recheck
    \/ irq_wait
    \/ run_tasks_wait_test
    \/ run_tasks_running
    \/ run_tasks_end
    \/ TdRun
    \/ TdCheck
    \/ sched_check_wake
    \/ task_work_done

\* Waking: tasks and interrupt handlers wake the task of w; the processor
\* never stops executing.
WakeNext ==
    \/ Foreground
    \/ Tick
    \/ TaskWake
    \/ IsrWakeTask

WakeSpec == Init /\ [][WakeNext]_vars /\ WF_vars(Foreground)

-----------------------------------------------------------------------------
(* Properties of the timer list *)

NoDup(s) == \A i, j \in 1..Len(s) : i # j => s[i] # s[j]

\* C1: following next from timer_list never visits a node twice, passes
\* through periodic_timer and ends at sentinel_timer, whose next is NULL; the
\* list is never empty.
C1_ListShape ==
    /\ List # << >>
    /\ NoDup(List)
    /\ periodic_timer \in Linked
    /\ List[Len(List)] = sentinel_timer
    /\ next[sentinel_timer] = NULL

\* both user timers linked behind deleted_timer, which a front insertion put
\* at the head
C1_Witness ==
    /\ List = << deleted_timer, "A", "B", periodic_timer, sentinel_timer >>
    /\ td.pc = "run"

\* the list is sorted: every linked node is before its successor or has the
\* successor's waketime
Sorted ==
    \A i \in 1..(Len(List) - 1) :
        \/ timer_is_before(waketime[List[i]], waketime[List[i + 1]])
        \/ waketime[List[i]] = waketime[List[i + 1]]

\* the list is strictly sorted: every linked node is before its successor
StrictlySorted ==
    \A i \in 1..(Len(List) - 1) :
        timer_is_before(waketime[List[i]], waketime[List[i + 1]])

AddedBefore(t1, t2) ==
    \E i, j \in 1..Len(linked_order) :
        i < j /\ linked_order[i] = t1 /\ linked_order[j] = t2

NewlyLinked == (Linked' \ Linked) \cap UserTimers

\* sched_add_timer is called with a waketime w that is before the waketime of
\* the first timer and before the clock, and the machine is not shut down
CloseInFront(w) ==
    /\ timer_is_before(w, waketime[timer_list])
    /\ timer_is_before(w, now)
    /\ shutdown_status = 0

\* C6, as the code has it: a call of sched_add_timer made while
\* shutdown_status is 0 with a waketime before the head's waketime and before
\* the clock jumps to the landing pad with reason "Timer too close" and leaves
\* the list alone; every other call links the timer.
C6_TooClose ==
    [][TaskAdd =>
          IF NewlyLinked # {}
              THEN \A t \in NewlyLinked : ~CloseInFront(waketime'[t])
              ELSE /\ pc' = "landing"
                   /\ jmp_val' = TimerTooClose
                   /\ UNCHANGED ListVars
                   /\ \E off \in AddOffsets : CloseInFront(Add32(now, off))]_vars

\* run_shutdown has latched "Timer too close" and the timer was not linked
C6_Witness ==
    /\ pc = "sd_handlers"
    /\ shutdown_reason = TimerTooClose
    /\ landings = 1
    /\ Linked \cap UserTimers = {}

\* C6 as stated: no call of sched_add_timer links a timer whose waketime is
\* before the clock
C6_Original ==
    [][TaskAdd =>
          \A t \in NewlyLinked : ~timer_is_before(waketime'[t], now)]_vars

\* the linked nodes of s other than t and deleted_timer, in list order
Others(s, t) == SelectSeq(s, LAMBDA n : n # t /\ n # deleted_timer)

\* the step takes t off the list and leaves every other timer linked, in the
\* same order and with the same waketime
RemovedAlone(t) ==
    /\ t \notin Linked'
    /\ Others(List', t) = Others(List, t)
    /\ \A n \in Range(Others(List, t)) : waketime'[n] = waketime[n]

\* C7: sched_del_timer(t), and sched_timer_dispatch when the callback of the
\* head t returns SF_DONE, take t off the list wherever it is and leave the
\* other timers linked in the same order; and a timer that is off the list
\* comes back, and so can be invoked again, only through sched_add_timer.
C7_Removal ==
    [][/\ \A t \in UserTimers :
              (InTask /\ sched_del_timer(t)) =>
                  /\ RemovedAlone(t)
                  /\ t = timer_list =>
                         /\ timer_list' = deleted_timer
                         /\ waketime'[deleted_timer] = waketime[t]
       /\ \A cb \in CallbackOutcomes(timer_list) :
              (/\ td.pc = "run"
               /\ timer_list \in UserTimers
               /\ cb.res = RES_DONE
               /\ sched_timer_dispatch(cb)) => RemovedAlone(timer_list)
       /\ \A t \in UserTimers :
              (t \notin Linked /\ t \in Linked') =>
                  linked_order' = Append(linked_order, t)]_vars

\* sched_del_timer has taken the head A away while B waits behind it
C7_Witness ==
    /\ List = << deleted_timer, "B", periodic_timer, sentinel_timer >>
    /\ td.pc = "off"
    /\ pc \in {"tasks", "task_work", "tasks2"}

\* C8: a call of sched_timer_dispatch runs the callback of the node that is
\* timer_list on entry and of no other timer (no other timer's waketime
\* changes, but the sentinel's when periodic_event runs), and returns the
\* waketime of the node that is timer_list when it returns.
C8_Dispatch ==
    [][(td.pc = "run" /\ td'.pc = "check") =>
          /\ td'.next = waketime'[timer_list']
          /\ \A t \in Timers \ {timer_list} :
                 \/ waketime'[t] = waketime[t]
                 \/ t = sentinel_timer /\ timer_list = periodic_timer]_vars

\* the call re-inserted A behind B and returned B's waketime
C8_Witness ==
    /\ td.pc = "check"
    /\ timer_list = "B"
    /\ last_insert = "A"
    /\ "A" \in Linked
    /\ td.next = waketime["B"]

-----------------------------------------------------------------------------
(* Properties of the task loop and of shutdown *)

\* C5: no wakeup is lost.  Whenever the wake flag of w is set, by a task or an
\* interrupt handler at any point of the loop, the loop comes to a task pass
\* in which sched_check_wake(w) returns 1 and the task of w does its work.
C5_NoLostWakeup == (wake = 1) ~> (pc = "task_work")

\* the flag was set between the first test of tasks_status and the second:
\* the loop is at the second test, interrupts off, with a wakeup pending
C5_Witness ==
    /\ pc = "check2"
    /\ wake = 1
    /\ tasks_status = TS_REQUESTED
    /\ ~irq_on

TryShutdownCall == TaskTryShutdown \/ IsrTryShutdown \/ ShutdownFuncTryShutdown

\* C10: shutdown_reason changes only in run_shutdown when the shutdown lands
\* with shutdown_status 0, and then to the reason handed to the jump; a
\* sched_try_shutdown made while shutdown_status is 1 or 2 does not jump and
\* changes nothing.
C10_FirstReason ==
    /\ [][/\ shutdown_reason' # shutdown_reason =>
                 /\ pc = "landing"
                 /\ shutdown_status = 0
                 /\ shutdown_reason' = jmp_val
          /\ (shutdown_status # 0 /\ TryShutdownCall) => UNCHANGED vars]_vars
    /\ []((pc = "landing" /\ jmp_val \in TryReasons) => shutdown_status = 0)

\* a second shutdown, with another reason, has landed while the machine was
\* shut down, and run_shutdown has kept the first reason
C10_Witness ==
    /\ pc = "sd_handlers"
    /\ landings = 2
    /\ shutdown_status = 2
    /\ shutdown_reason \in TryReasons
    /\ jmp_val \in ShutdownReasons

-----------------------------------------------------------------------------
(* Shutdown before the landing pad exists *)

\* every reason a shutdown is raised with
Reasons ==
    ShutdownReasons \cup TryReasons \cup
        {TimerTooClose, SentinelCalled, RescheduledInPast, ClearedNotShutdown,
         "Failed to create libevent base"}

\* C11 as stated: every call of sched_shutdown(reason), from an init function,
\* a task, a timer callback or sched_add_timer, takes control to the landing
\* pad of sched_main with that reason.
C11_AnyContext ==
    [][\A r \in Reasons :
          sched_shutdown(r) => pc' = "landing" /\ jmp_val' = r]_vars

-----------------------------------------------------------------------------
(* The periodic timer on its own *)

\* a period of the periodic timer passes
TickPeriod ==
    /\ pc # "crashed"
    /\ Sub32(Add32(now, PERIOD), BootTime) <= MaxPeriods * PERIOD + MaxElapsed
    /\ now' = Add32(now, PERIOD)
    /\ UNCHANGED << last_read_time, must_wake_timers, ListVars, TaskVars,
                    ShutVars, irq_on, jmp_set, jmp_val, pc, td, linked_order,
                    HistVars, SerialVars >>

\* the steps of the processor when no task uses the scheduler: no timer is
\* added, nothing is woken, nothing shuts the machine down
IdleForeground ==
    \/ timer_init
    \/ sched_main_setjmp
    \/ run_tasks_check
    \/ run_tasks_irq_disable
    \/ run_tasks_recheck
    \/ irq_wait
    \/ run_tasks_wait_test
    \/ run_tasks_running
    \/ run_tasks_end
    \/ TdRun
    \/ TdCheck
    \/ sched_check_wake

PeriodicNext ==
    \/ IdleForeground
    \/ Tick
    \/ TickPeriod

\* the processor never stops executing and the clock runs on
PeriodicSpec ==
    Init /\ [][PeriodicNext]_vars /\ WF_vars(IdleForeground)
         /\ WF_vars(TickPeriod)

\* periodic_timer waits for its k-th firing and the clock has reached it
PeriodicDue(k) ==
    /\ waketime[periodic_timer] = k * PERIOD
    /\ ~timer_is_before(now, k * PERIOD)

\* C12 as stated: with no user timers and no shutdown the periodic timer
\* keeps firing once per period, again and again: whenever the clock has
\* reached its waketime its callback is dispatched (which moves the waketime
\* on by a period and sets tasks_status to REQUESTED), and a requested task
\* pass is run, so the loop does not stay in irq_wait.
C12_PeriodicFires ==
    /\ \A k \in 0..MaxPeriods :
           PeriodicDue(k) ~> (waketime[periodic_timer] # k * PERIOD)
    /\ (tasks_status = TS_REQUESTED) ~> (pc = "tasks")

-----------------------------------------------------------------------------
(* Callbacks that reschedule into the past *)

\* how far before the clock the callback of user timer t puts its waketime:
\* A goes one tick back, every other timer a tick more than 100 ms
PastOffset(t) == IF t = "A" THEN 1 ELSE PERIOD + 1

\* sched_timer_dispatch when the callbacks of the user timers read the clock,
\* set waketime = now - PastOffset and return SF_RESCHEDULE
TdRunPast ==
    IF timer_list \in UserTimers
        THEN /\ td.pc = "run"
             /\ sched_timer_dispatch(
                    [res |-> RES_RESCHEDULE,
                     waketime |-> [waketime EXCEPT ![timer_list] =
                                      Sub32(now, PastOffset(timer_list))],
                     wake_tasks |-> FALSE, wake_task |-> FALSE,
                     shutdown |-> NULL])
             /\ last_read_time' = now
             /\ UNCHANGED << now, must_wake_timers, tasks_busy, ShutVars,
                             HistVars, SerialVars, irq_on, jmp_set, jmp_val >>
        ELSE TdRun

\* the steps of the processor; no task is woken
PastForeground ==
    \/ timer_init
    \/ sched_main_setjmp
    \/ run_shutdown_enter
    \/ run_shutdown_finish
    \/ run_tasks_check
    \/ run_tasks_irq_disable
    \/ run_tasks_recheck
    \/ irq_wait
    \/ run_tasks_wait_test
    \/ run_tasks_running
    \/ run_tasks_end
    \/ TdRunPast
    \/ TdCheck
    \/ sched_check_wake

\* the tasks add two timers whose callbacks reschedule into the past, all of
\* it within one clock tick
PastNext ==
    \/ PastForeground
    \/ TaskAddTwo

PastSpec == Init /\ [][PastNext]_vars /\ WF_vars(PastForeground)

\* timer_dispatch has just run the callback of t, which left t first
JustRan(t) ==
    /\ td.pc = "check"
    /\ timer_list = t
    /\ waketime[t] = Sub32(last_read_time, PastOffset(t))

\* C13, as the code has it: a timer whose callback always returns
\* SF_RESCHEDULE with a waketime more than 100 ms before now() makes the timer
\* driver raise the "Rescheduled timer in the past" shutdown, while
\* shutdown_status is 0, within TIMER_IDLE_REPEAT_COUNT + TIMER_REPEAT_COUNT
\* dispatches: once the callback is being run the shutdown is raised, the
\* call of timer_dispatch ends in no other way, and a call dispatches no more
\* than the two repeat budgets allow.
C13_RescheduledInPast ==
    /\ (JustRan("B") /\ shutdown_status = 0) ~>
           (pc = "landing" /\ jmp_val = RescheduledInPast)
    /\ [][(JustRan("B") /\ shutdown_status = 0 /\ td'.pc = "off") =>
              (pc' = "landing" /\ jmp_val' = RescheduledInPast)]_vars
    /\ [](td.count <= TIMER_IDLE_REPEAT_COUNT + TIMER_REPEAT_COUNT)

\* the repeat budget of the call is used up, B is first and 100 ms late
C13_Witness ==
    /\ JustRan("B")
    /\ shutdown_status = 0
    /\ td.repeat_count = 0
    /\ td.count = TIMER_REPEAT_COUNT

\* C13 as stated: the same of a timer whose callback always returns
\* SF_RESCHEDULE with waketime = now() - 1
C13_Original ==
    /\ (JustRan("A") /\ shutdown_status = 0) ~>
           (pc = "landing" /\ jmp_val = RescheduledInPast)
    /\ [][(JustRan("A") /\ shutdown_status = 0 /\ td'.pc = "off") =>
              (pc' = "landing" /\ jmp_val' = RescheduledInPast)]_vars
    /\ [](td.count <= TIMER_IDLE_REPEAT_COUNT + TIMER_REPEAT_COUNT)

-----------------------------------------------------------------------------
(* A timer added and deleted again *)

\* what a user callback adds to its waketime when it asks for a wakeup
\* further ahead than timer_dispatch waits for
LongSteps == {4}

\* timer_dispatch runs a user timer whose callback returns SF_RESCHEDULE with
\* a waketime that far ahead
TdRunLong ==
    /\ td.pc = "run"
    /\ timer_list \in UserTimers
    /\ \E d \in LongSteps :
           sched_timer_dispatch(
               [res |-> RES_RESCHEDULE,
                waketime |-> [waketime EXCEPT
                                  ![timer_list] = Add32(waketime[timer_list], d)],
                wake_tasks |-> FALSE, wake_task |-> FALSE, shutdown |-> NULL])
    /\ UNCHANGED << now, last_read_time, must_wake_timers, tasks_busy,
                    ShutVars, HistVars, SerialVars, irq_on, jmp_set, jmp_val >>

\* a task schedules a timer and keeps the list of before the call on record
TaskAddSnap ==
    /\ InTask
    /\ \E add \in {"A", "B"} \ Linked : \E off \in AddOffsets :
           /\ sched_add_timer(add, Add32(now, off))
           /\ snap' = [timer |-> add, next |-> next, waketime |-> waketime,
                       timer_list |-> timer_list, last_insert |-> last_insert,
                       front |-> timer_is_before(Add32(now, off),
                                                 waketime[timer_list]),
                       past |-> timer_is_before(Add32(now, off), now),
                       undone |-> FALSE, missing |-> FALSE]
    /\ UNCHANGED << now, must_wake_timers, last_insert, TaskVars,
                    ShutVars, landings, handler_runs, msgs, trues,
                    idled, SerialVars >>

\* a task removes a timer; the record is dropped, and what stays is whether
\* the call took back an add that went behind the first timer and whether
\* the timer was missing from the list
TaskDelSnap ==
    /\ InTask
    /\ \E del \in {"A", "B"} :
           /\ sched_del_timer(del)
           /\ snap' = [NoSnap EXCEPT
                          !.undone = del = snap.timer /\ ~snap.front,
                          !.missing = del \notin Linked]
    /\ UNCHANGED << now, last_read_time, must_wake_timers, TaskVars,
                    ShutVars, irq_on, jmp_set, jmp_val, pc, td, landings,
                    handler_runs, msgs, trues, idled, SerialVars >>

\* the timer list when every sched_add_timer of a task is on record until the
\* next sched_del_timer
AddDelNext ==
    \/ Tick
    \/ timer_init
    \/ timer_init_fail
    \/ sched_main_setjmp
    \/ run_shutdown_enter
    \/ run_shutdown_finish
    \/ run_tasks_check
    \/ run_tasks_irq_disable
    \/ run_tasks_recheck
    \/ irq_wait
    \/ run_tasks_wait_test
    \/ run_tasks_running
    \/ run_tasks_end
    \/ TdRun
    \/ TdRunLong
    \/ TdCheck
    \/ TaskAddSnap
    \/ TaskDelSnap
    \/ sched_check_wake

AddDelSpec == Init /\ [][AddDelNext]_vars

\* the step is the sched_del_timer(t) that follows sched_add_timer(t), no
\* other call of a task in between
DelAfterAdd ==
    /\ InTask
    /\ snap.timer \in UserTimers
    /\ sched_del_timer(snap.timer)
    /\ snap'.timer = NULL

\* the list is again what it was before the add
ListAsBefore ==
    /\ timer_list' = snap.timer_list
    /\ next' = snap.next
    /\ waketime' = snap.waketime

-----------------------------------------------------------------------------
(* A timer at the largest future distance *)

\* the largest distance ahead of the clock that timer_is_before tells from
\* the past: 0x7FFFFFFF ticks
FarAhead == INT32_MAX

\* a task schedules timer A near the clock
TaskAddNear == TaskAddOf({"A"})

\* a task schedules timer B 0x7FFFFFFF ticks ahead of the clock
TaskAddFar ==
    /\ InTask
    /\ "B" \notin Linked
    /\ sched_add_timer("B", Add32(now, FarAhead))
    /\ UNCHANGED << now, must_wake_timers, last_insert, TaskVars,
                    ShutVars, HistVars, SerialVars >>

\* the timer list with one timer near the clock and one at the largest
\* distance
FarNext ==
    \/ Tick
    \/ timer_init
    \/ timer_init_fail
    \/ sched_main_setjmp
    \/ run_shutdown_enter
    \/ run_shutdown_finish
    \/ run_tasks_check
    \/ run_tasks_irq_disable
    \/ run_tasks_recheck
    \/ irq_wait
    \/ run_tasks_wait_test
    \/ run_tasks_running
    \/ run_tasks_end
    \/ TdRun
    \/ TdCheck
    \/ TaskAddNear
    \/ TaskAddFar
    \/ TaskDelTwo
    \/ sched_check_wake

FarSpec == Init /\ [][FarNext]_vars

\* the step is sched_add_timer(B) with waketime now() + 0x7FFFFFFF
AddFarStep ==
    /\ InTask
    /\ "B" \notin Linked
    /\ sched_add_timer("B", Add32(now, FarAhead))

\* the call raised no shutdown and B is the last timer before the sentinel
AcceptedAsLatest ==
    /\ pc' # "landing"
    /\ shutdown_status' = shutdown_status
    /\ "B" \in Linked'
    /\ next'["B"] = sentinel_timer

\* no node of the list in front of the sentinel has a waketime before now()
NoneOverdue ==
    \A x \in Linked \ {sentinel_timer} : ~timer_is_before(waketime[x], now)

\* C15, as the code has it: sched_add_timer(t) with waketime now() +
\* 0x7FFFFFFF raises no shutdown in any case; when no node of the list in
\* front of the sentinel is overdue (none has a waketime before now()) t is
\* linked after every other pending timer, immediately before
\* sentinel_timer; timers added nearer the clock and the periodic timer when
\* it is linked again go in front of it, so it is dispatched after all of
\* them.
C15_FarAhead ==
    /\ [][AddFarStep =>
              /\ pc' # "landing"
              /\ shutdown_status' = shutdown_status]_vars
    /\ [][(AddFarStep /\ NoneOverdue) => AcceptedAsLatest]_vars
    /\ [][("B" \in Linked /\ next["B"] = sentinel_timer /\ "B" \in Linked')
              => next'["B"] = sentinel_timer]_vars

\* B was added 0x7FFFFFFF ticks ahead behind timer A and the periodic timer
C15_Witness ==
    /\ List = << "A", periodic_timer, "B", sentinel_timer >>
    /\ Sub32(waketime["B"], now) > FarAhead - MaxElapsed
    /\ ~timer_is_before(waketime["A"], now)
    /\ shutdown_status = 0

\* C15 as stated: sched_add_timer(t) with waketime now() + 0x7FFFFFFF raises
\* no shutdown and links t immediately before sentinel_timer, whatever the
\* waketime of the first timer is relative to now()
C15_Original == [][AddFarStep => AcceptedAsLatest]_vars

-----------------------------------------------------------------------------
(* A timer deleted that is not on the list *)

\* the step is sched_del_timer(t) of a task
DelStep(t) == InTask /\ sched_del_timer(t) /\ snap'.timer = NULL

\* C16: sched_del_timer(t) for a timer t that is not on the list leaves
\* timer_list, the links and waketimes of every node, deleted_timer and
\* last_insert as they are and raises no shutdown; a second
\* sched_del_timer(t) right after the first one changes nothing.
C16_DelMissing ==
    [][\A t \in {"A", "B"} :
          (DelStep(t) /\ t \notin Linked) =>
              /\ UNCHANGED << timer_list, next, waketime, last_insert >>
              /\ UNCHANGED << shutdown_status, shutdown_reason >>
              /\ pc' # "landing"]_vars

\* sched_del_timer was called for a timer that was not on the list, while
\* another timer waits behind the periodic timer and last_insert points at it
C16_Witness ==
    /\ snap.missing
    /\ InTask
    /\ Linked \cap {"A", "B"} # {}
    /\ last_insert \in {"A", "B"}

-----------------------------------------------------------------------------
(* Wakeups counted *)

\* a task calls sched_wake_task(w); the count of true results starts again
TaskWakeCounted ==
    /\ InTask
    /\ sched_wake_task
    /\ trues' = 0
    /\ UNCHANGED << now, last_read_time, must_wake_timers, ListVars,
                    tasks_busy, ShutVars, irq_on, jmp_set, jmp_val, pc, td,
                    linked_order, landings, handler_runs, msgs, snap,
                    idled, SerialVars >>

\* an interrupt handler calls sched_wake_task(w), also between the two
\* accesses of sched_check_wake; the count of true results starts again
IsrWakeCounted ==
    /\ IrqOpen
    /\ sched_wake_task
    /\ trues' = 0
    /\ UNCHANGED << now, last_read_time, must_wake_timers, ListVars,
                    tasks_busy, ShutVars, irq_on, jmp_set, jmp_val, pc, td,
                    linked_order, landings, handler_runs, msgs, snap,
                    idled, SerialVars >>

\* an interrupt handler calls sched_wake_task for another task: for w this
\* is sched_wake_tasks(), the flag of w is untouched
IsrWakeOther ==
    /\ IrqOpen
    /\ tasks_status' = TS_REQUESTED
    /\ UNCHANGED << now, last_read_time, must_wake_timers, ListVars,
                    tasks_busy, wake, ShutVars, irq_on, jmp_set, jmp_val, pc,
                    td, linked_order, HistVars, SerialVars >>

\* sched_check_wake(w), the read: if (!readb(&w->wake)) return 0;
CheckWakeRead ==
    /\ pc = "tasks"
    /\ td.pc = "off"
    /\ pc' = IF wake # 0 THEN "check_wake" ELSE "tasks2"
    /\ UNCHANGED << now, last_read_time, must_wake_timers, ListVars,
                    TaskVars, ShutVars, irq_on, jmp_set, jmp_val, td,
                    linked_order, HistVars, SerialVars >>

\* sched_check_wake that returns 1 and leaves the flag set
CheckWakeNoClear ==
    /\ pc = "check_wake"
    /\ wake' = wake
    /\ pc' = "task_work"
    /\ trues' = trues + 1
    /\ UNCHANGED << now, last_read_time, must_wake_timers, ListVars,
                    tasks_status, tasks_busy, ShutVars, irq_on, jmp_set,
                    jmp_val, td, linked_order, landings, handler_runs, msgs,
                    snap, idled, SerialVars >>

\* sched_check_wake(w), the write: writeb(&w->wake, 0); return 1; the task
\* of w starts its work
CheckWakeWrite ==
    /\ pc = "check_wake"
    /\ wake' = 0
    /\ pc' = "task_work"
    /\ trues' = trues + 1
    /\ UNCHANGED << now, last_read_time, must_wake_timers, ListVars,
                    tasks_status, tasks_busy, ShutVars, irq_on, jmp_set,
                    jmp_val, td, linked_order, landings, handler_runs, msgs,
                    snap, idled, SerialVars >>

\* the steps of the processor, sched_check_wake in its two accesses
CheckWakeForeground ==
    \/ timer_init
    \/ sched_main_setjmp
    \/ run_tasks_check
    \/ run_tasks_irq_disable
    \/ run_tasks_recheck
    \/ irq_wait
    \/ run_tasks_wait_test
    \/ run_tasks_running
    \/ run_tasks_end
    \/ TdRun
    \/ TdCheck
    \/ CheckWakeRead
    \/ CheckWakeWrite
    \/ task_work_done

\* tasks and interrupt handlers wake the task of w and other tasks while the
\* task of w checks its flag in every pass
CheckWakeNext ==
    \/ CheckWakeForeground
    \/ Tick
    \/ TaskWakeCounted
    \/ IsrWakeCounted
    \/ IsrWakeOther

CheckWakeSpec ==
    Init /\ [][CheckWakeNext]_vars /\ WF_vars(CheckWakeForeground)

\* C17: after a sched_wake_task(w) and until the next one exactly one
\* sched_check_wake(w) returns 1: never more than one; the flag of w stays set
\* until a call returns 1, whatever timer dispatches, sched_wake_tasks and
\* wakes of other tasks come in between, and a call does return 1; a call
\* made while the flag is clear returns 0; wakes before the check leave one
\* flag and one true result.
C17_OneTrueResult ==
    /\ [](trues <= 1)
    /\ [](wake = 1 => trues = 0)
    /\ [][(wake = 1 /\ wake' = 0) => (trues' = 1 /\ pc' = "task_work")]_vars
    /\ [][(pc = "tasks" /\ wake = 0 /\ pc' # "tasks") =>
              (pc' = "tasks2" /\ trues' = trues)]_vars
    /\ (wake = 1) ~> (wake = 0 /\ trues = 1)

\* a call has returned 1 in a pass in which an interrupt handler woke a task
\* after the pass had started: the task of w before its flag was cleared, or
\* another task
C17_Witness ==
    /\ pc = "task_work"
    /\ wake = 0
    /\ trues = 1
    /\ tasks_status = TS_REQUESTED
    /\ Sub32(now, BootTime) > 0

-----------------------------------------------------------------------------
(* Clearing a shutdown *)

\* a shutdown handler run by ctr_run_shutdownfuncs calls sched_clear_shutdown
ShutdownFuncClearShutdown ==
    /\ pc = "sd_handlers"
    /\ td.pc = "off"
    /\ sched_clear_shutdown
    /\ UNCHANGED << now, last_read_time, must_wake_timers, ListVars,
                    TaskVars, linked_order, HistVars, SerialVars >>

\* shutdown callers, and sched_clear_shutdown called by tasks and by shutdown
\* handlers
ClearNext ==
    \/ ShutdownNext
    \/ ShutdownFuncClearShutdown

ClearSpec == Init /\ [][ClearNext]_vars

\* the step is a call of sched_clear_shutdown
ClearStep == TaskClearShutdown \/ ShutdownFuncClearShutdown

\* C18: sched_clear_shutdown sets shutdown_status to 0 when it is 1 and
\* changes nothing else; it changes no variable at all when the status is 2;
\* it jumps to the landing pad with reason "Shutdown cleared when not
\* shutdown" when the status is 0.  A second call right after one that
\* cleared status 1 therefore lands, and run_shutdown then latches that
\* reason and leaves the machine shut down with it.
C18_ClearShutdown ==
    /\ [][(ClearStep /\ shutdown_status = 1) =>
              /\ shutdown_status' = 0
              /\ UNCHANGED << shutdown_reason, pc, jmp_val, ListVars,
                              TaskVars, td, HistVars, SerialVars >>]_vars
    /\ [][(ClearStep /\ shutdown_status = 2) => UNCHANGED vars]_vars
    /\ [][(ClearStep /\ shutdown_status = 0) =>
              /\ pc' = "landing"
              /\ jmp_val' = ClearedNotShutdown
              /\ UNCHANGED ShutVars]_vars
    /\ [][(pc = "landing" /\ jmp_val = ClearedNotShutdown
               /\ shutdown_status = 0 /\ pc' # pc) =>
              /\ shutdown_status' = 2
              /\ shutdown_reason' = ClearedNotShutdown]_vars
    /\ [][(pc = "sd_handlers" /\ pc' = "check1") =>
              /\ shutdown_status' = 1
              /\ shutdown_reason' = shutdown_reason
              /\ msgs' = Append(msgs, shutdown_reason)]_vars

\* the machine was shut down for another reason, the shutdown was cleared,
\* sched_clear_shutdown was called again, and the machine is shut down with
\* the reason of that second call
C18_Witness ==
    /\ shutdown_status = 1
    /\ shutdown_reason = ClearedNotShutdown
    /\ Len(msgs) = 2
    /\ msgs[1] # ClearedNotShutdown
    /\ msgs[2] = ClearedNotShutdown
    /\ InTask

-----------------------------------------------------------------------------
(* The scans of insert_timer *)

\* waketimes handed to sched_add_timer, relative to the clock: those of
\* AddOffsets and the largest one that is less than 2^31 ticks ahead
ScanOffsets == AddOffsets \cup {FarAhead}

\* a task schedules one of its timers, near the clock or far ahead
TaskAddScan ==
    /\ InTask
    /\ \E add \in UserTimers \ Linked : \E off \in ScanOffsets :
           sched_add_timer(add, Add32(now, off))
    /\ UNCHANGED << now, must_wake_timers, last_insert, TaskVars,
                    ShutVars, HistVars, SerialVars >>

\* where a user callback puts its waketime, relative to the clock, before it
\* returns SF_RESCHEDULE: further ahead than timer_dispatch waits for, up to
\* the largest distance less than 2^31 ticks
ScanSteps == {4, FarAhead}

\* What the callback of timer t may do when user callbacks are done or set
\* their waketime relative to the clock
ScanOutcomes(t) ==
    IF t \notin UserTimers THEN CallbackOutcomes(t)
    ELSE
        {[res |-> RES_DONE, waketime |-> waketime,
          wake_tasks |-> FALSE, wake_task |-> FALSE, shutdown |-> NULL]}
        \cup
        {[res |-> RES_RESCHEDULE,
          waketime |-> [waketime EXCEPT ![t] = Add32(now, d)],
          wake_tasks |-> FALSE, wake_task |-> FALSE, shutdown |-> NULL]
             : d \in ScanSteps}

\* timer_dispatch: next = timer_dispatch_many(); repeat_count--; with those
\* callbacks
TdRunScan ==
    /\ td.pc = "run"
    /\ \E cb \in ScanOutcomes(timer_list) :
           IF cb.shutdown # NULL
               THEN /\ sched_shutdown(cb.shutdown)
                    /\ UNCHANGED << ListVars, TaskVars, linked_order >>
               ELSE /\ sched_timer_dispatch(cb)
                    /\ UNCHANGED << irq_on, jmp_set, jmp_val >>
    /\ UNCHANGED << now, last_read_time, must_wake_timers, tasks_busy,
                    ShutVars, HistVars, SerialVars >>

\* the clock runs on past the periodic timer's waketime, once, while no timer
\* is dispatched
TickOverdue ==
    /\ pc # "crashed"
    /\ InSpan(now)
    /\ now' = Add32(now, PERIOD + MaxElapsed)
    /\ UNCHANGED << last_read_time, must_wake_timers, ListVars, TaskVars,
                    ShutVars, irq_on, jmp_set, jmp_val, pc, td, linked_order,
                    HistVars, SerialVars >>

\* the timer list while the clock runs past the periodic timer and waketimes
\* lie anywhere less than 2^31 ticks ahead of it
ScanNext ==
    \/ TickOverdue
    \/ timer_init
    \/ sched_main_setjmp
    \/ run_shutdown_enter
    \/ run_shutdown_finish
    \/ run_tasks_check
    \/ run_tasks_irq_disable
    \/ run_tasks_recheck
    \/ irq_wait
    \/ run_tasks_wait_test
    \/ run_tasks_running
    \/ run_tasks_end
    \/ TdRunScan
    \/ TdCheck
    \/ TaskAddScan
    \/ TaskDel
    \/ sched_check_wake

ScanSpec == Init /\ [][ScanNext]_vars

\* C19 as stated: every scan of insert_timer, started by sched_add_timer from
\* the head or by sched_timer_dispatch from last_insert or from the head,
\* stops at a node in front of the sentinel or at the sentinel: none reads
\* through the sentinel's NULL next pointer, none links a timer behind the
\* sentinel, for waketimes less than 2^31 ticks ahead of now(), also while
\* the periodic timer is overdue.
C19_ScanStops ==
    /\ pc # "crashed"
    /\ next[sentinel_timer] = NULL
    /\ sentinel_timer \in Linked
    /\ List[Len(List)] = sentinel_timer

-----------------------------------------------------------------------------
(* last_insert *)

\* C20: after every completed sched_add_timer, sched_del_timer,
\* sched_timer_dispatch and sched_timer_reset, last_insert points to a node
\* that is reached from timer_list: never to a timer that was taken off the
\* list by sched_del_timer, by returning SF_DONE or by sched_timer_reset, and
\* never to deleted_timer.
C20_LastInsertAlive ==
    /\ last_insert \in Linked
    /\ last_insert # deleted_timer

\* timer_dispatch has dispatched deleted_timer and two user timers in one
\* call: one was linked again behind the other, which made last_insert point
\* to it, the other one has left the list since
C20_Witness ==
    /\ td.pc = "check"
    /\ td.count >= 3
    /\ last_insert \in UserTimers
    /\ Cardinality(Linked \cap UserTimers) = 1

-----------------------------------------------------------------------------
(* Order of the list between operations *)

\* C21 as stated: in every state between operations each linked node other
\* than the sentinel has its successor's waketime or a waketime that is
\* before it, also after periodic_event has moved the sentinel's waketime,
\* after a re-insertion that started from last_insert and after the head was
\* replaced by deleted_timer.
C21_SortedBetweenOps ==
    \A n \in Linked \ {sentinel_timer} :
        \/ waketime[n] = waketime[next[n]]
        \/ timer_is_before(waketime[n], waketime[next[n]])

-----------------------------------------------------------------------------
(* A callback that asks for the same waketime again *)

\* timer_dispatch runs a user timer whose callback returns SF_RESCHEDULE and
\* leaves its waketime as it is
TdRunSame ==
    /\ td.pc = "run"
    /\ timer_list \in UserTimers
    /\ sched_timer_dispatch(
           [res |-> RES_RESCHEDULE, waketime |-> waketime,
            wake_tasks |-> FALSE, wake_task |-> FALSE, shutdown |-> NULL])
    /\ UNCHANGED << now, last_read_time, must_wake_timers, tasks_busy,
                    ShutVars, HistVars, SerialVars, irq_on, jmp_set, jmp_val >>

\* the steps of the processor, with user callbacks that may leave their
\* waketime unchanged
SameForeground ==
    \/ timer_init
    \/ sched_main_setjmp
    \/ run_shutdown_enter
    \/ run_shutdown_finish
    \/ run_tasks_check
    \/ run_tasks_irq_disable
    \/ run_tasks_recheck
    \/ irq_wait
    \/ run_tasks_wait_test
    \/ run_tasks_running
    \/ run_tasks_end
    \/ TdRun
    \/ TdRunSame
    \/ TdCheck
    \/ sched_check_wake
    \/ task_work_done

\* tasks add and delete two timers while the clock moves only where
\* timer_dispatch waits for a timer
SameNext ==
    \/ SameForeground
    \/ TaskAddTwo
    \/ TaskDelTwo

SameSpec == Init /\ [][SameNext]_vars

\* sched_timer_dispatch left the head where it was and returned its waketime
KeptAsHead ==
    /\ timer_list' = timer_list
    /\ next' = next
    /\ waketime' = waketime
    /\ last_insert' = last_insert
    /\ td'.next = waketime[timer_list]

\* C22, as the code has it: when the callback of the head returns
\* SF_RESCHEDULE without changing its waketime and that waketime is before
\* the successor's, sched_timer_dispatch keeps the timer as the head, links
\* nothing again, leaves last_insert alone and returns the timer's waketime.
C22_KeptAsHead ==
    [][(TdRunSame /\ timer_is_before(waketime[timer_list],
                                     waketime[next[timer_list]]))
           => KeptAsHead]_vars

\* the callback of A has returned SF_RESCHEDULE with its waketime unchanged
\* twice in one timer_dispatch call, A is still the head, in front of B
C22_Witness ==
    /\ td.pc = "check"
    /\ td.count >= 3
    /\ timer_list = "A"
    /\ next["A"] = "B"
    /\ timer_is_before(waketime["A"], waketime["B"])
    /\ td.next = waketime["A"]
    /\ ~timer_is_before(now, waketime["A"])

\* C22 as stated: when the callback of the head returns SF_RESCHEDULE without
\* changing its waketime, sched_timer_dispatch keeps the timer as the head
\* and returns its waketime, whatever the waketime of its successor
C22_Original == [][TdRunSame => KeptAsHead]_vars

-----------------------------------------------------------------------------
(* The list when sched_add_timer returns *)

\* the sched_add_timer on record went through deleted_timer: its waketime was
\* before the first timer's and not before now()
AddInFront == snap.timer # NULL /\ snap.front /\ ~snap.past

\* the timer that was first before the sched_add_timer on record, or the one
\* behind deleted_timer when deleted_timer was first
FormerHead ==
    IF snap.timer_list = deleted_timer
        THEN snap.next[deleted_timer] ELSE snap.timer_list

\* deleted_timer is first, carries the waketime of the timer on record and
\* points at it, and that timer points at the former first timer
AddedBehindDeleted ==
    /\ timer_list' = deleted_timer
    /\ waketime'[deleted_timer] = waketime'[snap.timer]
    /\ next'[deleted_timer] = snap.timer
    /\ next'[snap.timer] = FormerHead

\* sched_add_timer calls timer_kick(): the step starts a timer_dispatch that
\* will return into sched_add_timer
AddKicks == td.pc = "off" /\ td'.pc = "run" /\ td'.ret = "add"

\* the timer_kick() of sched_add_timer returns, and sched_add_timer with it
AddReturns == td.pc = "check" /\ td.ret = "add" /\ td'.pc = "off" /\ pc' = pc

\* the step is a sched_add_timer of a task, put on record
AddStep == snap' # snap /\ snap'.timer # NULL

\* the list that sched_add_timer hands to timer_kick(): deleted_timer is
\* first, carries the waketime of the new timer and points at it, and the new
\* timer points at the former first timer
ListAtKick ==
    /\ timer_list' = deleted_timer
    /\ waketime'[deleted_timer] = waketime'[snap'.timer]
    /\ next'[deleted_timer] = snap'.timer
    /\ next'[snap'.timer] = IF timer_list = deleted_timer
                                THEN next[deleted_timer] ELSE timer_list

\* no timer_kick(), the same first timer, deleted_timer as it was
NoKickNoChange ==
    /\ td' = td
    /\ timer_list' = timer_list
    /\ waketime'[deleted_timer] = waketime[deleted_timer]
    /\ next'[deleted_timer] = next[deleted_timer]

\* no timer_kick(), the same first timer, deleted_timer's waketime as it was,
\* and its next pointer too unless deleted_timer is first and the new timer
\* is linked right behind it
NoKickSameHead ==
    /\ td' = td
    /\ timer_list' = timer_list
    /\ waketime'[deleted_timer] = waketime[deleted_timer]
    /\ \/ next'[deleted_timer] = next[deleted_timer]
       \/ timer_list = deleted_timer /\ next'[deleted_timer] = snap'.timer

\* C23, as the code has it: sched_add_timer(t) with t.waketime before the
\* first timer's and not before now() calls timer_kick() once, and at that
\* call timer_list is deleted_timer with t's waketime and next == t, and
\* t.next is the former first timer (the timer behind deleted_timer when
\* deleted_timer was first); timer_kick() dispatches deleted_timer at once, so
\* when sched_add_timer returns timer_list is not deleted_timer any more while
\* deleted_timer.next is still t.  An add that does not precede the first
\* timer calls no timer_kick() and leaves timer_list and
\* deleted_timer.waketime unchanged; deleted_timer.next changes only when
\* deleted_timer is first and t is linked right behind it.
C23_AddInFront ==
    /\ [][(AddStep /\ snap'.front /\ ~snap'.past)
              => (AddKicks /\ ListAtKick)]_vars
    /\ [][(AddReturns /\ AddInFront)
              => (timer_list' # deleted_timer
                  /\ next'[deleted_timer] = snap.timer)]_vars
    /\ [][(AddStep /\ ~snap'.front) => NoKickSameHead]_vars

\* sched_add_timer of a timer in front of the first one has returned: the
\* new timer is first, deleted_timer still points at it
C23_Witness ==
    /\ AddInFront
    /\ td.pc = "off"
    /\ pc = "tasks"
    /\ timer_list = snap.timer
    /\ next[deleted_timer] = snap.timer
    /\ next[snap.timer] = FormerHead
    /\ snap.timer_list = deleted_timer

\* C23 as stated: when sched_add_timer(t) with a waketime before the first
\* timer's and not before now() returns, timer_list is deleted_timer with
\* t's waketime and next == t, t.next is the former first timer and
\* timer_kick() was called once; an add that does not precede the first timer
\* calls no timer_kick() and leaves timer_list and deleted_timer unchanged
C23_Original ==
    /\ [][(AddStep /\ snap'.front /\ ~snap'.past) => AddKicks]_vars
    /\ [][(AddReturns /\ AddInFront) => AddedBehindDeleted]_vars
    /\ [][(AddStep /\ ~snap'.front) => NoKickNoChange]_vars

-----------------------------------------------------------------------------
(* sched_check_set_tasks_busy *)

\* the processor with one timer whose callback may keep its waketime, so that
\* timer_dispatch uses up its repeat budget, and interrupt handlers that wake
\* the task loop out of its idle wait
BusyNext ==
    \/ SameForeground
    \/ TaskAddOne
    \/ IsrWakeOther

BusySpec == Init /\ [][BusyNext]_vars

\* sched_check_set_tasks_busy() is called and returns 1: timer_dispatch
\* returns to its caller
BusyReturnsTrue == BusyCalled /\ td' = TdOff

\* sched_check_set_tasks_busy() is called and returns 0: timer_dispatch goes
\* on with the idle repeat budget
BusyReturnsFalse ==
    /\ BusyCalled
    /\ td'.pc = "run"
    /\ td'.repeat_count = TIMER_IDLE_REPEAT_COUNT

\* C24: sched_check_set_tasks_busy returns 1 exactly when tasks_status has
\* not been TS_IDLE at any time since the previous call (since boot for the
\* first call); otherwise it returns 0 and records the current tasks_status
\* in tasks_busy; and tasks_busy becomes TS_IDLE only where run_tasks goes
\* idle.
C24_TasksBusy ==
    /\ [][(BusyCalled /\ td' # td) =>
              /\ BusyReturnsTrue <=> ~idled
              /\ BusyReturnsFalse <=> idled
              /\ BusyReturnsTrue => tasks_busy' = tasks_busy
              /\ BusyReturnsFalse => tasks_busy' = tasks_status]_vars
    /\ [][(tasks_busy # TS_IDLE /\ tasks_busy' = TS_IDLE) =>
              (pc = "check2" /\ pc' = "irq_wait"
               /\ tasks_status' = TS_IDLE)]_vars

\* the task loop has been idle and was woken; in a timer_dispatch kicked by
\* a task sched_check_set_tasks_busy returned 0 and recorded TS_RUNNING, and
\* timer_dispatch has returned with its timer still due, which it does only
\* when a later call returns 1
C24_Witness ==
    /\ td.pc = "off"
    /\ pc = "tasks"
    /\ tasks_busy = TS_RUNNING
    /\ ~idled
    /\ timer_list = "A"
    /\ ~timer_is_before(now, waketime["A"])

-----------------------------------------------------------------------------
(* serial.c: the main thread, the TCP thread and the two ring buffers *)

\* Every ring buffer function holds the buffer's mutex from its first line to
\* its last, so each is one step; pthread_cond_wait in a while loop that
\* tests the count again is a step that waits for the count to allow it.
\* shutdown_requested is set only by serial_cleanup, which nothing calls: it
\* is 0 throughout, and the loops that test it go on.

SchedVars == << now, last_read_time, must_wake_timers, waketime, next,
                timer_list, last_insert, tasks_status, tasks_busy,
                shutdown_status, shutdown_reason, wake, irq_on, jmp_set,
                jmp_val, pc, td, linked_order, HistVars >>

\* serial_init, one of the init functions: the ring buffers are set up and
\* the TCP thread is created, unless pthread_create fails
serial_init ==
    /\ pc = "initfuncs"
    /\ main_pc = "boot"
    /\ tx_buffer' = 0
    /\ rx_buffer' = 0
    /\ \E created \in BOOLEAN : tcp_pc' = IF created THEN "init" ELSE "unborn"
    /\ main_pc' = "out"
    /\ UNCHANGED << tcp_thread_running, tx_pending, rx_pending, tcp_write,
                    client, sock_in, SchedVars >>

\* tcp_thread_func up to its loop: tcp_server_init binds and listens, or
\* fails and the thread ends
tcp_thread_func ==
    /\ tcp_pc = "init"
    /\ \E ok \in BOOLEAN :
           /\ tcp_thread_running' = IF ok THEN 1 ELSE 0
           /\ tcp_pc' = IF ok THEN "accept" ELSE "exited"
    /\ UNCHANGED << tx_buffer, rx_buffer, main_pc, tx_pending, rx_pending,
                    tcp_write, client, sock_in, SchedVars >>

\* a client connects to the listening socket
ClientConnects ==
    /\ tcp_thread_running = 1
    /\ client = "absent"
    /\ client' = "knocking"
    /\ UNCHANGED << tx_buffer, rx_buffer, tcp_thread_running, main_pc,
                    tx_pending, tcp_pc, rx_pending, tcp_write, sock_in,
                    SchedVars >>

\* the client sends a byte
ClientSends ==
    /\ client = "connected"
    /\ sock_in < MaxChunk
    /\ sock_in' = sock_in + 1
    /\ UNCHANGED << tx_buffer, rx_buffer, tcp_thread_running, main_pc,
                    tx_pending, tcp_pc, rx_pending, tcp_write, client,
                    SchedVars >>

\* the client closes the connection
ClientCloses ==
    /\ client = "connected"
    /\ client' = "gone"
    /\ UNCHANGED << tx_buffer, rx_buffer, tcp_thread_running, main_pc,
                    tx_pending, tcp_pc, rx_pending, tcp_write, sock_in,
                    SchedVars >>

\* tcp_thread_func, client_fd == -1: select and accept take the client that
\* is waiting; a select that times out changes nothing
tcp_accept ==
    /\ tcp_pc = "accept"
    /\ client = "knocking"
    /\ client' = "connected"
    /\ tcp_pc' = "select"
    /\ UNCHANGED << tx_buffer, rx_buffer, tcp_thread_running, main_pc,
                    tx_pending, rx_pending, tcp_write, sock_in, SchedVars >>

\* handle_client_connection, from the top of its loop to the result of
\* read(): the socket is readable when bytes or the end of the stream wait,
\* and is asked for writing when tx_buffer holds a byte
handle_client_select ==
    /\ tcp_pc = "select"
    /\ LET has_tx_data == tx_buffer > 0
       IN  IF sock_in > 0 THEN
               \* read() returned sock_in bytes
               /\ rx_pending' = sock_in
               /\ sock_in' = 0
               /\ tcp_write' = has_tx_data
               /\ tcp_pc' = "rx_put"
               /\ UNCHANGED client
           ELSE IF client = "gone" THEN
               \* read() returned 0: break, close(client_fd), client_fd = -1
               /\ client' = "absent"
               /\ tcp_write' = FALSE
               /\ tcp_pc' = "accept"
               /\ UNCHANGED << rx_pending, sock_in >>
           ELSE
               \* nothing to read
               /\ has_tx_data
               /\ tcp_write' = TRUE
               /\ tcp_pc' = "tx_get"
               /\ UNCHANGED << rx_pending, sock_in, client >>
    /\ UNCHANGED << tx_buffer, rx_buffer, tcp_thread_running, main_pc,
                    tx_pending, SchedVars >>

\* ring_buffer_put lets a byte in when the buffer of count bytes has room
ring_buffer_put(count) == count < BufferSize

\* handle_client_connection, the for loop over the bytes read:
\* ring_buffer_put(&rx_buffer, buffer[i]) waits while rx_buffer is full
handle_client_rx_put ==
    /\ tcp_pc = "rx_put"
    /\ IF rx_pending > 0 THEN
           /\ ring_buffer_put(rx_buffer)
           /\ rx_buffer' = rx_buffer + 1
           /\ rx_pending' = rx_pending - 1
           /\ UNCHANGED << tcp_pc, tcp_write >>
       ELSE
           /\ tcp_pc' = IF tcp_write THEN "tx_get" ELSE "select"
           /\ tcp_write' = FALSE
           /\ UNCHANGED << rx_buffer, rx_pending >>
    /\ UNCHANGED << tx_buffer, tcp_thread_running, main_pc, tx_pending,
                    client, sock_in, SchedVars >>

\* handle_client_connection, the outgoing byte: ring_buffer_get(&tx_buffer)
\* and write(); a write to a connection the client has closed fails and ends
\* the connection
handle_client_tx_get ==
    /\ tcp_pc = "tx_get"
    /\ tx_buffer' = IF tx_buffer > 0 THEN tx_buffer - 1 ELSE tx_buffer
    /\ tcp_write' = FALSE
    /\ IF client = "gone" /\ tx_buffer > 0
           THEN client' = "absent" /\ tcp_pc' = "accept"
           ELSE client' = client /\ tcp_pc' = "select"
    /\ UNCHANGED << rx_buffer, tcp_thread_running, main_pc, tx_pending,
                    rx_pending, sock_in, SchedVars >>

\* the main thread calls serial_enable_tx_irq() with some bytes of a message
\* waiting in the transmit buffer
serial_enable_tx_irq ==
    /\ main_pc = "out"
    /\ main_pc' = "rx_get"
    /\ \E n \in 0..MaxTxBytes : tx_pending' = n
    /\ UNCHANGED << tx_buffer, rx_buffer, tcp_thread_running, tcp_pc,
                    rx_pending, tcp_write, client, sock_in, SchedVars >>

\* process_received_data: ring_buffer_get(&rx_buffer) until it is empty, then
\* the test of tcp_thread_running
process_received_data ==
    /\ main_pc = "rx_get"
    /\ IF rx_buffer > 0 THEN
           /\ rx_buffer' = rx_buffer - 1
           /\ UNCHANGED << main_pc, tx_pending >>
       ELSE IF tcp_thread_running # 0 THEN
           /\ main_pc' = "tx_put"
           /\ UNCHANGED << rx_buffer, tx_pending >>
       ELSE
           /\ main_pc' = "out"
           /\ tx_pending' = 0
           /\ UNCHANGED rx_buffer
    /\ UNCHANGED << tx_buffer, tcp_thread_running, tcp_pc, rx_pending,
                    tcp_write, client, sock_in, SchedVars >>

\* serial_enable_tx_irq, the while loop: serial_get_tx_byte and
\* ring_buffer_put(&tx_buffer, data), which waits while tx_buffer is full
serial_tx_put ==
    /\ main_pc = "tx_put"
    /\ IF tx_pending > 0 THEN
           /\ ring_buffer_put(tx_buffer)
           /\ tx_buffer' = tx_buffer + 1
           /\ tx_pending' = tx_pending - 1
           /\ UNCHANGED main_pc
       ELSE
           /\ main_pc' = "out"
           /\ UNCHANGED << tx_buffer, tx_pending >>
    /\ UNCHANGED << rx_buffer, tcp_thread_running, tcp_pc, rx_pending,
                    tcp_write, client, sock_in, SchedVars >>

\* the steps of the main thread inside serial.c
MainThread ==
    \/ serial_init
    \/ process_received_data
    \/ serial_tx_put

\* the steps of the TCP thread
TcpThread ==
    \/ tcp_thread_func
    \/ tcp_accept
    \/ handle_client_select
    \/ handle_client_rx_put
    \/ handle_client_tx_get

SerialNext ==
    \/ MainThread
    \/ serial_enable_tx_irq
    \/ TcpThread
    \/ ClientConnects
    \/ ClientSends
    \/ ClientCloses

\* both threads run whenever they can; the client does as it likes
SerialSpec ==
    Init /\ [][SerialNext]_vars /\ WF_vars(MainThread) /\ WF_vars(TcpThread)

\* the main thread waits in ring_buffer_put on the full tx_buffer
MainWaits ==
    main_pc = "tx_put" /\ tx_pending > 0 /\ ~ring_buffer_put(tx_buffer)

\* the TCP thread waits in ring_buffer_put on the full rx_buffer
TcpWaits ==
    tcp_pc = "rx_put" /\ rx_pending > 0 /\ ~ring_buffer_put(rx_buffer)

\* C25 as stated: serial_enable_tx_irq always returns, the main thread never
\* waits for ever in ring_buffer_put on a full tx_buffer, with or without a
\* client, and in no state both threads wait on each other's full buffer
C25_AlwaysReturns ==
    /\ []<>(~MainWaits)
    /\ [](~(MainWaits /\ TcpWaits))

====
